---- MODULE Spec2Model ----
(***************************************************************************)
(* Model of audio_processor.cpp: the bounded sample queue                  *)
(* (BatchCircularBuffer) and the three-stage pipeline (AudioProcessor).    *)
(***************************************************************************)
EXTENDS Integers, Sequences, FiniteSets, TLC

(***************************************************************************)
(* Bounds of the model.                                                    *)
(***************************************************************************)
\* capacity of the queue under test
Cap == 2
\* number of threads that may be suspended in a blocking call at one time
NThreads == 1
\* samples per block in the end-to-end queue scenario
ScenarioBlock == 2

\* the queue copies samples without looking at them: two distinguishable
\* values (0 is also what the zero-filled storage holds at construction)
Samples == {0, 1}
Threads == 1..NThreads
\* request lengths 0..Cap+1: empty requests and requests larger than the ring
MaxLen == Cap + 1
Lengths == 0..MaxLen
DataOfLen(n) == [1..n -> Samples]

(***************************************************************************)
(* BatchCircularBuffer: the object's fields and its methods as operators   *)
(* on the record [buffer, capacity, head, tail, size].  Every method body  *)
(* runs under the object's mutex, so a body (or the part of it before, or  *)
(* after, a condition-variable wait) is one atomic step.                   *)
(***************************************************************************)
NewQueue(cap) ==
    [buffer   |-> [i \in 0..(cap - 1) |-> 0],
     capacity |-> cap,
     head     |-> 0,
     tail     |-> 0,
     size     |-> 0]

\* write: `if (!blocking && size.load() + length > capacity) return false;`
WriteRejectsMut(q, length) == q.size + length > q.capacity + 1
WriteRejectsOnFill(q, length) == q.size + length >= q.capacity
WriteRejects(q, length) == q.size + length > q.capacity

\* write: the predicate of notFull.wait
NotFullPredMut(q, length) == q.size <= q.capacity
NotFullPred(q, length) == q.size + length <= q.capacity

\* read: `if (!blocking && size.load() < length) return false;`
ReadRejectsMut(q, length) == q.size + 1 < length
ReadRejects(q, length) == q.size < length

\* read: the predicate of notEmpty.wait
NotEmptyPred(q, length) == q.size >= length

\* write: the copy loop, i counting the elements of data from 1
RECURSIVE WriteLoop(_, _, _)
WriteLoop(q, data, i) ==
    IF i > Len(data)
    THEN q
    ELSE WriteLoop([q EXCEPT !.buffer[q.head] = data[i],
                             !.head = (q.head + 1) % q.capacity],
                   data, i + 1)

\* write: copy loop, then size.fetch_add(length)
WriteCopyMut(q, data) ==
    [q EXCEPT !.buffer = [i \in DOMAIN q.buffer |->
                            IF i < Len(data) THEN data[i + 1] ELSE q.buffer[i]],
              !.head = (q.head + Len(data)) % q.capacity,
              !.size = q.size + Len(data)]
WriteCopy(q, data) ==
    [WriteLoop(q, data, 1) EXCEPT !.size = q.size + Len(data)]

\* read: the copy loop; out is the caller's block filled so far
RECURSIVE ReadLoop(_, _, _)
ReadLoop(q, out, n) ==
    IF n = 0
    THEN [q |-> q, data |-> out]
    ELSE ReadLoop([q EXCEPT !.tail = (q.tail + 1) % q.capacity],
                  Append(out, q.buffer[q.tail]), n - 1)

\* read: copy loop, then size.fetch_sub(length); yields [q, data]
ReadCopyMut(q, length) ==
    LET r == ReadLoop([q EXCEPT !.tail = (q.tail + 1) % q.capacity], <<>>, length)
    IN  [q |-> [q EXCEPT !.tail = (q.tail + length) % q.capacity,
                         !.size = q.size - length],
         data |-> r.data]
ReadCopy(q, length) ==
    LET r == ReadLoop(q, <<>>, length)
    IN  [q |-> [r.q EXCEPT !.size = q.size - length], data |-> r.data]

availableForWrite(q) == q.capacity - q.size
availableForRead(q) == q.size

\* same as ClearFields, but head is left where it was
ClearFieldsKeepHead(q) == [q EXCEPT !.tail = 0, !.size = 0]
\* clear: head = tail = 0; size.store(0)
ClearFields(q) == [q EXCEPT !.head = 0, !.tail = 0, !.size = 0]

(***************************************************************************)
(* std::condition_variable.  A suspended thread is a record                *)
(* [pc, cv, len]: pc "wait" while blocked inside cv.wait, "woken" once     *)
(* notified (or spuriously woken) and due to re-acquire the mutex and      *)
(* re-evaluate its predicate.                                              *)
(***************************************************************************)
IdleThread == [pc |-> "idle", cv |-> "none", len |-> 0]
Suspended(cv, length) == [pc |-> "wait", cv |-> cv, len |-> length]

\* notify_one: the possible results, one per thread that could be chosen
NotifyOne(w, cv) ==
    LET ws == {t \in DOMAIN w : w[t].pc = "wait" /\ w[t].cv = cv}
    IN  IF ws = {} THEN {w} ELSE {[w EXCEPT ![t].pc = "woken"] : t \in ws}

\* notify_all
NotifyAll(w, cv) ==
    [t \in DOMAIN w |->
        IF w[t].pc = "wait" /\ w[t].cv = cv
        THEN [w[t] EXCEPT !.pc = "woken"]
        ELSE w[t]]

\* clear: notFull.notify_all() is the only notification it sends
ClearNotify(w) == NotifyAll(w, "notFull")

(***************************************************************************)
(* AudioProcessor: the sizes it is built from.  PERIOD_SIZE is 120 in the  *)
(* source; the model scales the period down and keeps every size derived   *)
(* from it exactly as the source derives it.                               *)
(***************************************************************************)
\* frames per period (scaled down)
PERIOD_SIZE == 2
\* periods the capture device delivers in one run of the model
MaxDelivered == 2
\* calls the control thread makes in one run of the model
MaxCalls == 4

CHANNELS == 2
\* sizeof(int32_t)
SampleBytes == 4
FRAME_SIZE == CHANNELS * SampleBytes
\* the factor in getAudioBufferSize(): FRAME_SIZE * PERIOD_SIZE * 8
QueuePeriods == 8
AUDIO_BUFFER_SIZE == FRAME_SIZE * PERIOD_SIZE * QueuePeriods
\* for (int i = 0; i < 5; ++i) in captureLoop
PrefillBlocks == 5
\* for (int i = 0; i < 2; ++i) in playbackLoop
PrerollWrites == 2
\* the element count of captureBuffer, processingBuffer and playbackBuffer
BlockSamples == PERIOD_SIZE * CHANNELS

Stages == {"capture", "processing", "playback"}
\* a stage thread: pc is its position in its loop function ("none" before
\* it is created, "exited" once the function has returned); cv/len describe
\* the wait it is suspended in, i counts the iterations of its for loop
NoStage == [pc |-> "none", cv |-> "none", len |-> 0, i |-> 0]
Silence == [k \in 1..BlockSamples |-> 0]
\* the value of a sample read from beyond the end of a vector
Indeterminate == MaxDelivered + 1

VARIABLES
    q,        \* the BatchCircularBuffer under test
    th,       \* per thread: idle, or suspended in a blocking call
    last,     \* the call that acted in the latest step, and its outcome
    fifo,     \* history: the samples written and not yet read or cleared
    scn,      \* the position and the record of the end-to-end scenario
    running,       \* AudioProcessor::running
    firstBuffer,   \* capture -> processing queue
    secondBuffer,  \* processing -> playback queue
    stage,         \* the three stage threads
    block,         \* captureBuffer, processingBuffer, playbackBuffer
    joinable,      \* captureThread/processingThread/playbackThread.joinable()
    dev,           \* per ALSADevice: handle != nullptr
    ctl,           \* the control thread: position inside stop(), last result,
                   \* and the number of calls it has made
    delivered,     \* periods the capture device has delivered so far
    fatal,         \* history: the stage that cleared running on a device error
    crashed,       \* the process was terminated abnormally
    delayLine,     \* a DelayLine: buffer, maxLen, writeIndex
    written,       \* history: the latest samples written to delayLine
    lineRead,      \* the latest DelayLine::read call and what it returned
    chain,         \* an AudioEffectChain, the buffers of one process call
    delayEffect,   \* the DelayEffect: m_enabled, the length of each delay
                   \* buffer, m_writeIndices
    proc,          \* the processing thread inside DelayEffect::process
    setter,        \* the control thread inside an effect control call
    delayFx,       \* a DelayEffect's tuning members
    reverbFx,      \* a ReverbEffect's tuning members and its filters' members
    call,          \* the latest tuning call, and the number of calls so far
    echo           \* a DelayEffect whose process runs on its own: buffers,
                   \* write indices, and the record of what was stored

queueVars == <<q, th, last, fifo>>
pipeVars == <<running, firstBuffer, secondBuffer, stage, block, joinable, dev,
              ctl, delivered, fatal, crashed>>
fxVars == <<delayEffect, proc, setter>>
tuneVars == <<delayFx, reverbFx, call, echo>>
unitVars == <<delayLine, written, lineRead, chain, delayEffect, proc, setter,
              delayFx, reverbFx, call, echo>>
vars == <<q, th, last, fifo, scn, running, firstBuffer, secondBuffer, stage,
          block, joinable, dev, ctl, delivered, fatal, crashed, delayLine,
          written, lineRead, chain, delayEffect, proc, setter, delayFx,
          reverbFx, call, echo>>

\* no DelayLine has been constructed
NoDelayLine ==
    /\ delayLine = [buffer |-> <<>>, maxLen |-> 0, writeIndex |-> 0]
    /\ written = <<>>
    /\ lineRead = [d |-> 0, index |-> 0, value |-> 0]

\* no AudioEffectChain::process call is under test
NoChain ==
    chain = [m_effects |-> <<>>, mem |-> <<>>, inputBuffer |-> "none",
             outputBuffer |-> "none", numSamples |-> 0, channels |-> 0,
             before |-> <<>>, registered |-> <<>>, done |-> FALSE]

\* no DelayEffect has been created
NoDelayEffect ==
    /\ delayEffect = [m_enabled |-> FALSE, m_delayBuffers |-> <<>>,
                      m_writeIndices |-> <<>>]
    /\ proc = [pc |-> "none", sample |-> 0, ch |-> 0, readIndex |-> 0]
    /\ setter = [pc |-> "none", i |-> 0, calls |-> 0]

\* no effect is being tuned
NoTuning ==
    /\ delayFx = [m_enabled |-> FALSE]
    /\ reverbFx = [m_enabled |-> FALSE]
    /\ call = [op |-> "none", calls |-> 0]

\* no DelayEffect::process is exercised on its own
NoEcho == echo = [m_delayBuffers |-> <<>>]

\* the classes exercised on their own are not in use
NoUnits == NoDelayLine /\ NoChain /\ NoDelayEffect /\ NoTuning /\ NoEcho

\* the AudioProcessor's members other than its queues, before any call
Unstarted ==
    /\ running = FALSE
    /\ stage = [s \in Stages |-> NoStage]
    /\ block = [s \in Stages |-> Silence]
    /\ joinable = [s \in Stages |-> FALSE]
    /\ dev = [capture |-> FALSE, playback |-> FALSE]
    /\ ctl = [pc |-> "idle", ret |-> "none", calls |-> 0]
    /\ delivered = 0
    /\ fatal = "none"
    /\ crashed = FALSE

\* the AudioProcessor after its constructor
Constructed ==
    /\ firstBuffer = NewQueue(AUDIO_BUFFER_SIZE)
    /\ secondBuffer = NewQueue(AUDIO_BUFFER_SIZE)
    /\ Unstarted

\* no AudioProcessor: the queue is exercised on its own, the processor's
\* queues are not allocated
NoProcessor ==
    /\ firstBuffer = NewQueue(0)
    /\ secondBuffer = NewQueue(0)
    /\ Unstarted

\* what a step did: op/blocking/len are the call, ret its outcome ("true",
\* "false", or "suspended" when the caller is left inside wait), data the
\* samples a read delivered, resumed whether the caller had been suspended
NoCall == [op |-> "none", blocking |-> FALSE, len |-> 0, ret |-> "none",
           data |-> <<>>, resumed |-> FALSE]
Call(op, blocking, length, ret, data, resumed) ==
    [op |-> op, blocking |-> blocking, len |-> length, ret |-> ret,
     data |-> data, resumed |-> resumed]

\* thread 0 stands for any thread that is not tracked in th; it only makes
\* calls that return without suspending
Returned(w, t) == IF t \in DOMAIN w THEN [w EXCEPT ![t] = IdleThread] ELSE w
CanCall(t) == IF t = 0 THEN TRUE ELSE th[t].pc = "idle"

QueueInit ==
    /\ q = NewQueue(Cap)
    /\ th = [t \in Threads |-> IdleThread]
    /\ last = NoCall
    /\ fifo = <<>>

\* the tail of write once it may copy: copy, fetch_add, notEmpty.notify_one;
\* the caller's block is read when the copy loop runs
DoWrite(t, blocking, length, resumed) ==
    \E data \in DataOfLen(length) :
        /\ q' = WriteCopy(q, data)
        /\ th' \in NotifyOne(Returned(th, t), "notEmpty")
        /\ last' = Call("write", blocking, length, "true", <<>>, resumed)
        /\ fifo' = fifo \o data

\* the tail of read once it may copy: copy, fetch_sub, notFull.notify_one
DoRead(t, blocking, length, resumed) ==
    LET r == ReadCopy(q, length)
    IN  /\ q' = r.q
        /\ th' \in NotifyOne(Returned(th, t), "notFull")
        /\ last' = Call("read", blocking, length, "true", r.data, resumed)
        /\ fifo' = SubSeq(fifo, length + 1, Len(fifo))

\* write(data, length, false)
WriteNonBlocking(length) ==
    IF WriteRejects(q, length)
    THEN /\ last' = Call("write", FALSE, length, "false", <<>>, FALSE)
         /\ UNCHANGED <<q, th, fifo>>
    ELSE DoWrite(0, FALSE, length, FALSE)

\* write(data, length, true) up to its copy or its first suspension
WriteBlocking(t, length) ==
    /\ CanCall(t)
    /\ IF NotFullPred(q, length)
       THEN DoWrite(t, TRUE, length, FALSE)
       ELSE /\ t \in DOMAIN th
            /\ th' = [th EXCEPT ![t] = Suspended("notFull", length)]
            /\ last' = Call("write", TRUE, length, "suspended", <<>>, FALSE)
            /\ UNCHANGED <<q, fifo>>

\* read(data, length, false)
ReadNonBlocking(length) ==
    IF ReadRejects(q, length)
    THEN /\ last' = Call("read", FALSE, length, "false", <<>>, FALSE)
         /\ UNCHANGED <<q, th, fifo>>
    ELSE DoRead(0, FALSE, length, FALSE)

\* read(data, length, true) up to its copy or its first suspension
ReadBlocking(t, length) ==
    /\ CanCall(t)
    /\ IF NotEmptyPred(q, length)
       THEN DoRead(t, TRUE, length, FALSE)
       ELSE /\ t \in DOMAIN th
            /\ th' = [th EXCEPT ![t] = Suspended("notEmpty", length)]
            /\ last' = Call("read", TRUE, length, "suspended", <<>>, FALSE)
            /\ UNCHANGED <<q, fifo>>

\* a woken writer re-acquires the mutex and re-evaluates its predicate
ResumeWrite(t) ==
    /\ th[t].pc = "woken"
    /\ th[t].cv = "notFull"
    /\ IF NotFullPred(q, th[t].len)
       THEN DoWrite(t, TRUE, th[t].len, TRUE)
       ELSE /\ th' = [th EXCEPT ![t].pc = "wait"]
            /\ last' = Call("write", TRUE, th[t].len, "suspended", <<>>, TRUE)
            /\ UNCHANGED <<q, fifo>>

\* a woken reader re-acquires the mutex and re-evaluates its predicate
ResumeRead(t) ==
    /\ th[t].pc = "woken"
    /\ th[t].cv = "notEmpty"
    /\ IF NotEmptyPred(q, th[t].len)
       THEN DoRead(t, TRUE, th[t].len, TRUE)
       ELSE /\ th' = [th EXCEPT ![t].pc = "wait"]
            /\ last' = Call("read", TRUE, th[t].len, "suspended", <<>>, TRUE)
            /\ UNCHANGED <<q, fifo>>

\* condition_variable::wait may return without a notification
SpuriousWake(t) ==
    /\ th[t].pc = "wait"
    /\ th' = [th EXCEPT ![t].pc = "woken"]
    /\ last' = NoCall
    /\ UNCHANGED <<q, fifo>>

\* clear()
Clear ==
    /\ q' = ClearFields(q)
    /\ th' = ClearNotify(th)
    /\ last' = Call("clear", FALSE, 0, "void", <<>>, FALSE)
    /\ fifo' = <<>>

\* threads are interchangeable: a new blocking call is made by the
\* lowest-numbered tracked thread that is not suspended, or by thread 0
\* when all of them are
IdleThreads == {t \in DOMAIN th : th[t].pc = "idle"}
Caller ==
    IF IdleThreads = {}
    THEN 0
    ELSE CHOOSE t \in IdleThreads : \A u \in IdleThreads : t <= u

\* the scenario record while no scenario runs
ScnOff == [step |-> -1, rets |-> <<>>, blocks |-> <<>>, used |-> 0, free |-> 0,
           out |-> <<>>]

Init ==
    /\ QueueInit
    /\ scn = ScnOff
    /\ NoProcessor
    /\ NoUnits

Next ==
    \/ \E n \in Lengths : WriteNonBlocking(n) /\ UNCHANGED <<scn, pipeVars, unitVars>>
    \/ \E n \in Lengths : WriteBlocking(Caller, n) /\ UNCHANGED <<scn, pipeVars, unitVars>>
    \/ \E n \in Lengths : ReadNonBlocking(n) /\ UNCHANGED <<scn, pipeVars, unitVars>>
    \/ \E n \in Lengths : ReadBlocking(Caller, n) /\ UNCHANGED <<scn, pipeVars, unitVars>>
    \/ \E t \in DOMAIN th : ResumeWrite(t) /\ UNCHANGED <<scn, pipeVars, unitVars>>
    \/ \E t \in DOMAIN th : ResumeRead(t) /\ UNCHANGED <<scn, pipeVars, unitVars>>
    \/ \E t \in DOMAIN th : SpuriousWake(t) /\ UNCHANGED <<scn, pipeVars, unitVars>>
    \/ Clear /\ UNCHANGED <<scn, pipeVars, unitVars>>

Spec == Init /\ [][Next]_vars

(***************************************************************************)
(* Properties of BatchCircularBuffer, checked under Spec.                  *)
(***************************************************************************)
\* the ring cells that hold written, not yet read samples
UnreadCells(b) == {(b.tail + k) % b.capacity : k \in 0..(b.size - 1)}

SizeInRange == 0 <= q.size /\ q.size <= q.capacity
NoUnreadOverwritten == \A i \in UnreadCells(q) : q'.buffer[i] = q.buffer[i]
ReadWithinWritten ==
    (last'.op = "read" /\ last'.ret = "true") => Len(last'.data) <= Len(fifo)

\* C1: in every reachable state 0 <= size <= capacity; no step changes a
\* ring cell that holds a sample not yet read; and a read never returns more
\* samples than were written and not yet returned (so, summed over a
\* behaviour, the reads never return more than the writes put in).
C1_QueueInvariants ==
    /\ []SizeInRange
    /\ [][NoUnreadOverwritten]_vars
    /\ [][ReadWithinWritten]_vars

\* a blocking write that had been suspended has filled the ring, its block
\* wrapping around the end of the storage
C1_Witness ==
    /\ last.op = "write" /\ last.ret = "true" /\ last.resumed
    /\ q.size = q.capacity
    /\ q.tail # 0

\* C2: every successful read returns the samples written earliest among those
\* not yet read, in write order, wherever head and tail are in the ring.
C2_Fifo ==
    [][(last'.op = "read" /\ last'.ret = "true")
         => last'.data = SubSeq(fifo, 1, last'.len)]_vars

\* a read of two different samples that started before the end of the
\* storage and ended after it
C2_Witness ==
    /\ last.op = "read" /\ last.ret = "true"
    /\ last.len >= 2
    /\ last.data[1] # last.data[2]
    /\ 0 < q.tail /\ q.tail < last.len

\* C3: a non-blocking write with size + length > capacity returns false and
\* leaves head, tail, size, the stored samples, availableForRead and the
\* waiting threads as they were.
C3_WriteOverflowNoChange ==
    [][(last'.op = "write" /\ ~last'.blocking
            /\ q.size + last'.len > q.capacity)
         => /\ last'.ret = "false"
            /\ q' = q
            /\ availableForRead(q') = availableForRead(q)
            /\ th' = th
            /\ fifo' = fifo]_vars

\* a write that fits the ring's capacity is refused because of the samples
\* already queued
C3_Witness ==
    /\ last.op = "write" /\ ~last.blocking /\ last.ret = "false"
    /\ last.len <= q.capacity
    /\ q.size > 0

\* C4: a non-blocking read with length > availableForRead returns false,
\* delivers no sample and leaves the queue as it was.
C4_ReadUnderrunNoChange ==
    [][(last'.op = "read" /\ ~last'.blocking
            /\ last'.len > availableForRead(q))
         => /\ last'.ret = "false"
            /\ last'.data = <<>>
            /\ q' = q
            /\ th' = th
            /\ fifo' = fifo]_vars

\* a read is refused while the queue holds samples, only fewer than asked
C4_Witness ==
    /\ last.op = "read" /\ ~last.blocking /\ last.ret = "false"
    /\ q.size > 0

\* C6: a blocking write copies only from a state with size + length <=
\* capacity and a blocking read only from one with size >= length; when the
\* condition does not hold the caller is left suspended and nothing is
\* copied; a blocking call never returns false.
C6_BlockingWaits ==
    [][/\ (last'.op = "write" /\ last'.blocking /\ last'.ret = "true")
            => q.size + last'.len <= q.capacity
       /\ (last'.op = "read" /\ last'.blocking /\ last'.ret = "true")
            => q.size >= last'.len
       /\ (last'.op = "write" /\ last'.blocking
               /\ q.size + last'.len > q.capacity)
            => (last'.ret = "suspended" /\ q' = q)
       /\ (last'.op = "read" /\ last'.blocking /\ q.size < last'.len)
            => (last'.ret = "suspended" /\ q' = q)
       /\ last'.blocking => last'.ret \in {"true", "suspended"}]_vars

\* a blocking write that had to wait has returned
C6_Witness ==
    /\ last.op = "write" /\ last.blocking /\ last.resumed
    /\ last.ret = "true" /\ last.len > 0

\* a suspended thread can return without any other thread calling write or
\* read: it has been woken and the condition it waits for holds (a request
\* longer than the ring can never be served and is left out)
Released(t) ==
    \/ th[t].pc = "idle"
    \/ th[t].len > q.capacity
    \/ /\ th[t].pc = "woken"
       /\ IF th[t].cv = "notFull"
          THEN NotFullPred(q, th[t].len)
          ELSE NotEmptyPred(q, th[t].len)

\* C7: right after clear() the queue is empty (size = 0, head = tail) and
\* every thread that was suspended in a blocking write or a blocking read is
\* released.
C7_ClearReleasesWaiters ==
    last.op = "clear"
        => /\ q.size = 0
           /\ q.head = q.tail
           /\ \A t \in DOMAIN th : Released(t)

(***************************************************************************)
(* The end-to-end queue scenario: one thread, a new queue that holds four  *)
(* blocks (8 samples for blocks of 2), four non-blocking writes of one     *)
(* block each, then one blocking read of three blocks.  scn records what   *)
(* the calls returned and what the queue reported after each write.        *)
(***************************************************************************)
ScenarioCapacity == 4 * ScenarioBlock

ScenarioInit ==
    /\ q = NewQueue(ScenarioCapacity)
    /\ th = <<>>
    /\ last = NoCall
    /\ fifo = <<>>
    /\ scn = [ScnOff EXCEPT !.step = 0]
    /\ NoProcessor
    /\ NoUnits

\* write(block, ScenarioBlock, false), the first to the fourth
ScenarioWrite ==
    /\ scn.step \in 0..3
    /\ WriteNonBlocking(ScenarioBlock)
    /\ scn' = [scn EXCEPT
                 !.step = scn.step + 1,
                 !.rets = Append(scn.rets, last'.ret),
                 !.blocks = Append(scn.blocks,
                                   SubSeq(fifo', Len(fifo) + 1, Len(fifo'))),
                 !.used = availableForRead(q'),
                 !.free = availableForWrite(q')]

\* read(out, 3 * ScenarioBlock, true)
ScenarioRead ==
    /\ scn.step = 4
    /\ ReadBlocking(0, 3 * ScenarioBlock)
    /\ scn' = [scn EXCEPT !.step = 5,
                          !.rets = Append(scn.rets, last'.ret),
                          !.out = last'.data]

ScenarioNext ==
    \/ ScenarioWrite /\ UNCHANGED <<pipeVars, unitVars>>
    \/ ScenarioRead /\ UNCHANGED <<pipeVars, unitVars>>

ScenarioSpec == ScenarioInit /\ [][ScenarioNext]_vars

FirstThreeBlocks == scn.blocks[1] \o scn.blocks[2] \o scn.blocks[3]

\* C5 as stated: the first three writes succeed, the fourth fails leaving
\* 6 used / 2 free, and the blocking read of 6 returns the three blocks in
\* order.
C5_ScenarioAsStated ==
    /\ scn.step >= 4
         => /\ SubSeq(scn.rets, 1, 4) = <<"true", "true", "true", "false">>
            /\ scn.used = 3 * ScenarioBlock
            /\ scn.free = ScenarioBlock
    /\ scn.step = 5
         => /\ scn.rets[5] = "true"
            /\ scn.out = FirstThreeBlocks

\* C5, amended: the first three writes succeed and leave 6 used / 2 free; the
\* fourth write of 2 fits exactly, succeeds and leaves 8 used / 0 free; the
\* blocking read of 6 returns the first three blocks in order.
C5_Scenario ==
    /\ scn.step = 3
         => /\ scn.rets = <<"true", "true", "true">>
            /\ scn.used = 3 * ScenarioBlock
            /\ scn.free = ScenarioBlock
    /\ scn.step >= 4
         => /\ SubSeq(scn.rets, 1, 4) = <<"true", "true", "true", "true">>
            /\ scn.used = ScenarioCapacity
            /\ scn.free = 0
    /\ scn.step = 5
         => /\ scn.rets[5] = "true"
            /\ scn.out = FirstThreeBlocks
            /\ availableForRead(q) = ScenarioBlock

\* the scenario has run to its end with three different blocks
C5_Witness ==
    /\ scn.step = 5
    /\ scn.blocks[1] # scn.blocks[2]
    /\ scn.blocks[2] # scn.blocks[3]
    /\ scn.blocks[1] # scn.blocks[3]

(***************************************************************************)
(* AudioProcessor: the control thread (initialize, start, stop) and the    *)
(* three stage threads.  A stage's condition-variable waits use the        *)
(* operators above with the queue's name in front of the variable's.       *)
(***************************************************************************)
\* the samples a queue reads from a caller's vector when asked for length
\* elements: the vector's own, then whatever lies beyond its end
CallerData(vec, length) ==
    [k \in 1..length |-> IF k <= Len(vec) THEN vec[k] ELSE Indeterminate]

\* the vector after a queue stored data through its data() pointer: the
\* elements beyond its end land outside it
StoreInBlock(vec, data) ==
    [k \in 1..Len(vec) |-> IF k <= Len(data) THEN data[k] ELSE vec[k]]

\* snd_pcm_readi delivered frames frames of period number id
Captured(vec, frames, id) ==
    [k \in 1..Len(vec) |-> IF k <= frames * CHANNELS THEN id ELSE vec[k]]

\* m_effectChain.process in place: every sample of the block is replaced by
\* its processed image, a value no captured sample has
Processed(v) == -(v + 1)
EffectChainProcess(vec) == [k \in 1..Len(vec) |-> Processed(vec[k])]

\* the stage's function returns; its vector is destroyed
Exited == [NoStage EXCEPT !.pc = "exited"]
At(pc) == [NoStage EXCEPT !.pc = pc]
Waiting(s, cv, length) ==
    [stage[s] EXCEPT !.pc = "wait", !.cv = cv, !.len = length]

\* abnormal termination (std::terminate, or a fault on an access outside a
\* vector): nothing of the process is left to observe
Terminate ==
    /\ crashed' = TRUE
    /\ running' = FALSE
    /\ firstBuffer' = NewQueue(AUDIO_BUFFER_SIZE)
    /\ secondBuffer' = NewQueue(AUDIO_BUFFER_SIZE)
    /\ stage' = [s \in Stages |-> NoStage]
    /\ block' = [s \in Stages |-> Silence]
    /\ joinable' = [s \in Stages |-> FALSE]
    /\ dev' = [capture |-> FALSE, playback |-> FALSE]
    /\ ctl' = [pc |-> "idle", ret |-> "none", calls |-> 0]
    /\ delivered' = 0
    /\ fatal' = "none"

\* initialize(): the capture device is opened and configured, then the
\* playback device; the first failure returns false
initialize ==
    /\ ~crashed /\ ctl.pc = "idle" /\ ctl.calls < MaxCalls /\ ~dev.capture
    /\ \E opened \in {<<FALSE, FALSE>>, <<TRUE, FALSE>>, <<TRUE, TRUE>>} :
         /\ dev' = [capture |-> opened[1], playback |-> opened[2]]
         /\ ctl' = [ctl EXCEPT !.ret = IF opened[2] THEN "initialized"
                                       ELSE "initializeFailed",
                               !.calls = @ + 1]
    /\ UNCHANGED <<running, firstBuffer, secondBuffer, stage, block, joinable,
                   delivered, fatal, crashed>>

\* start(): refused while running or when a device cannot be prepared;
\* otherwise sets running and creates the three threads.  Assigning to a
\* std::thread that is still joinable calls std::terminate.
start ==
    /\ ~crashed /\ ctl.pc = "idle" /\ ctl.calls < MaxCalls
    /\ \E prepared \in BOOLEAN :
         \/ /\ running \/ ~(dev.capture /\ dev.playback /\ prepared)
            /\ ctl' = [ctl EXCEPT !.ret = "startRefused", !.calls = @ + 1]
            /\ UNCHANGED <<running, firstBuffer, secondBuffer, stage, block,
                           joinable, dev, delivered, fatal, crashed>>
         \/ /\ ~running /\ dev.capture /\ dev.playback /\ prepared
            /\ \E s \in Stages : joinable[s]
            /\ Terminate
         \/ /\ ~running /\ dev.capture /\ dev.playback /\ prepared
            /\ \A s \in Stages : ~joinable[s]
            /\ running' = TRUE
            /\ stage' = [capture |-> At("deviceStart"),
                         processing |-> At("loop"),
                         playback |-> At("preroll")]
            /\ block' = [s \in Stages |-> Silence]
            /\ joinable' = [s \in Stages |-> TRUE]
            /\ fatal' = "none"
            /\ ctl' = [ctl EXCEPT !.ret = "started", !.calls = @ + 1]
            /\ UNCHANGED <<firstBuffer, secondBuffer, dev, delivered, crashed>>

\* stop(), up to running.store(false)
stopBegin ==
    /\ ~crashed /\ ctl.pc = "idle" /\ ctl.calls < MaxCalls
    /\ IF ~running
       THEN /\ ctl' = [ctl EXCEPT !.ret = "stopped", !.calls = @ + 1]
            /\ UNCHANGED running
       ELSE /\ running' = FALSE
            /\ ctl' = [ctl EXCEPT !.pc = "clearFirst", !.ret = "stopping",
                                  !.calls = @ + 1]
    /\ UNCHANGED <<firstBuffer, secondBuffer, stage, block, joinable, dev,
                   delivered, fatal, crashed>>

\* firstBuffer->clear()
stopClearFirst ==
    /\ ~crashed /\ ctl.pc = "clearFirst"
    /\ firstBuffer' = ClearFields(firstBuffer)
    /\ stage' = NotifyAll(stage, "first.notFull")
    /\ ctl' = [ctl EXCEPT !.pc = "clearSecond"]
    /\ UNCHANGED <<running, secondBuffer, block, joinable, dev, delivered,
                   fatal, crashed>>

\* secondBuffer->clear()
stopClearSecond ==
    /\ ~crashed /\ ctl.pc = "clearSecond"
    /\ secondBuffer' = ClearFields(secondBuffer)
    /\ stage' = NotifyAll(stage, "second.notFull")
    /\ ctl' = [ctl EXCEPT !.pc = "joinCapture"]
    /\ UNCHANGED <<running, firstBuffer, block, joinable, dev, delivered,
                   fatal, crashed>>

\* if (t.joinable()) t.join(), for the capture, the processing and the
\* playback thread in turn: join returns once the thread's function has
\* returned
JoinOrder == <<"capture", "processing", "playback">>
JoinPc == [capture |-> "joinCapture", processing |-> "joinProcessing",
           playback |-> "joinPlayback"]
stopJoin ==
    /\ ~crashed
    /\ \E n \in DOMAIN JoinOrder :
         LET s == JoinOrder[n]
         IN  /\ ctl.pc = JoinPc[s]
             /\ joinable[s] => stage[s].pc = "exited"
             /\ joinable' = [joinable EXCEPT ![s] = FALSE]
             /\ ctl' = [ctl EXCEPT !.pc = IF n < Len(JoinOrder)
                                          THEN JoinPc[JoinOrder[n + 1]]
                                          ELSE "drop"]
    /\ UNCHANGED <<running, firstBuffer, secondBuffer, stage, block, dev,
                   delivered, fatal, crashed>>

\* captureDevice.drop(); playbackDevice.drop(); stop() returns
stopDrop ==
    /\ ~crashed /\ ctl.pc = "drop"
    /\ ctl' = [ctl EXCEPT !.pc = "idle", !.ret = "stopped"]
    /\ UNCHANGED <<running, firstBuffer, secondBuffer, stage, block, joinable,
                   dev, delivered, fatal, crashed>>

\* printStatus(): reads the running flag, the fill of both queues and, with
\* getState(), the state of both devices; returns nothing and changes
\* nothing
printStatus ==
    /\ ~crashed /\ ctl.pc = "idle" /\ ctl.calls < MaxCalls
    /\ ctl' = [ctl EXCEPT !.ret = "status", !.calls = @ + 1]
    /\ UNCHANGED <<running, firstBuffer, secondBuffer, stage, block, joinable,
                   dev, delivered, fatal, crashed>>

(***************************************************************************)
(* captureLoop                                                             *)
(***************************************************************************)
\* captureDevice.start(); on failure running.store(false) and return
captureDeviceStart ==
    /\ ~crashed /\ stage.capture.pc = "deviceStart"
    /\ \E ok \in BOOLEAN :
         IF dev.capture /\ ok
         THEN /\ stage' = [stage EXCEPT !.capture = At("prefill")]
              /\ UNCHANGED <<running, fatal>>
         ELSE /\ stage' = [stage EXCEPT !.capture = Exited]
              /\ running' = FALSE
              /\ fatal' = "capture"
    /\ UNCHANGED <<firstBuffer, secondBuffer, block, joinable, dev, ctl,
                   delivered, crashed>>

\* secondBuffer->write(captureBuffer.data(), PERIOD_SIZE * FRAME_SIZE), a
\* blocking write of the zero-filled vector, five times; also the
\* re-evaluation of the wait's predicate after a wake-up
capturePrefill ==
    /\ ~crashed /\ stage.capture.pc \in {"prefill", "woken"}
    /\ LET length == PERIOD_SIZE * FRAME_SIZE
           n == stage.capture.i + 1
           after == IF n < PrefillBlocks
                    THEN [At("prefill") EXCEPT !.i = n]
                    ELSE At("loop")
       IN  IF NotFullPred(secondBuffer, length)
           THEN /\ secondBuffer' =
                       WriteCopy(secondBuffer, CallerData(block.capture, length))
                /\ \E w \in NotifyOne(stage, "second.notEmpty") :
                       stage' = [w EXCEPT !.capture = after]
           ELSE /\ stage' = [stage EXCEPT
                               !.capture = Waiting("capture", "second.notFull", length)]
                /\ UNCHANGED secondBuffer
    /\ UNCHANGED <<running, firstBuffer, block, joinable, dev, ctl, delivered,
                   fatal, crashed>>

\* while (running.load())
captureLoopTest ==
    /\ ~crashed /\ stage.capture.pc = "loop"
    /\ stage' = [stage EXCEPT !.capture = IF running THEN At("deviceRead")
                                          ELSE Exited]
    /\ block' = [block EXCEPT !.capture = IF running THEN @ ELSE Silence]
    /\ UNCHANGED <<running, firstBuffer, secondBuffer, joinable, dev, ctl,
                   delivered, fatal, crashed>>

\* captureDevice.read(captureBuffer.data(), PERIOD_SIZE) and the handling
\* of its result: frames read, -EAGAIN, an error recover() repairs, or an
\* error it does not (running.store(false); break)
captureDeviceRead ==
    /\ ~crashed /\ stage.capture.pc = "deviceRead"
    /\ \/ /\ delivered < MaxDelivered
          /\ \E frames \in 1..PERIOD_SIZE :
               /\ delivered' = delivered + 1
               /\ block' = [block EXCEPT
                              !.capture = Captured(@, frames, delivered + 1)]
               /\ stage' = [stage EXCEPT
                              !.capture = [At("queueWrite") EXCEPT
                                             !.len = frames * FRAME_SIZE]]
          /\ UNCHANGED <<running, fatal>>
       \/ /\ \E outcome \in {"again", "recovered"} :
               stage' = [stage EXCEPT !.capture = At("loop")]
          /\ UNCHANGED <<running, fatal, block, delivered>>
       \/ /\ stage' = [stage EXCEPT !.capture = Exited]
          /\ block' = [block EXCEPT !.capture = Silence]
          /\ running' = FALSE
          /\ fatal' = "capture"
          /\ UNCHANGED delivered
    /\ UNCHANGED <<firstBuffer, secondBuffer, joinable, dev, ctl, crashed>>

\* a capture stage that gives up on overflow: the rejected write clears the
\* running flag and ends the loop (not what lines 1501-1505 do)
captureQueueWriteFatal ==
    /\ ~crashed /\ stage.capture.pc = "queueWrite"
    /\ LET length == stage.capture.len
       IN  IF WriteRejects(firstBuffer, length)
           THEN /\ stage' = [stage EXCEPT !.capture = Exited]
                /\ running' = FALSE
                /\ UNCHANGED firstBuffer
           ELSE /\ firstBuffer' =
                       WriteCopy(firstBuffer, CallerData(block.capture, length))
                /\ \E w \in NotifyOne(stage, "first.notEmpty") :
                       stage' = [w EXCEPT !.capture = At("loop")]
                /\ UNCHANGED running
    /\ UNCHANGED <<secondBuffer, block, joinable, dev, ctl, delivered,
                   fatal, crashed>>

\* firstBuffer->write(data, bytesToWrite, false)
captureQueueWrite ==
    /\ ~crashed /\ stage.capture.pc = "queueWrite"
    /\ LET length == stage.capture.len
       IN  IF WriteRejects(firstBuffer, length)
           THEN /\ stage' = [stage EXCEPT !.capture = At("loop")]
                /\ UNCHANGED firstBuffer
           ELSE /\ firstBuffer' =
                       WriteCopy(firstBuffer, CallerData(block.capture, length))
                /\ \E w \in NotifyOne(stage, "first.notEmpty") :
                       stage' = [w EXCEPT !.capture = At("loop")]
    /\ UNCHANGED <<running, secondBuffer, block, joinable, dev, ctl, delivered,
                   fatal, crashed>>

(***************************************************************************)
(* processingLoop                                                          *)
(***************************************************************************)
\* while (running.load())
processingLoopTest ==
    /\ ~crashed /\ stage.processing.pc = "loop"
    /\ stage' = [stage EXCEPT !.processing = IF running THEN At("queueRead")
                                             ELSE Exited]
    /\ block' = [block EXCEPT !.processing = IF running THEN @ ELSE Silence]
    /\ UNCHANGED <<running, firstBuffer, secondBuffer, joinable, dev, ctl,
                   delivered, fatal, crashed>>

\* firstBuffer->read(data, PERIOD_SIZE * FRAME_SIZE, true); also the
\* re-evaluation of the wait's predicate after a wake-up
processingQueueRead ==
    /\ ~crashed /\ stage.processing.pc \in {"queueRead", "woken"}
    /\ LET length == PERIOD_SIZE * FRAME_SIZE
       IN  IF NotEmptyPred(firstBuffer, length)
           THEN LET r == ReadCopy(firstBuffer, length)
                IN  /\ firstBuffer' = r.q
                    /\ block' = [block EXCEPT
                                   !.processing = StoreInBlock(@, r.data)]
                    /\ \E w \in NotifyOne(stage, "first.notFull") :
                           stage' = [w EXCEPT !.processing = At("effects")]
           ELSE /\ stage' = [stage EXCEPT
                               !.processing =
                                   Waiting("processing", "first.notEmpty", length)]
                /\ UNCHANGED <<firstBuffer, block>>
    /\ UNCHANGED <<running, secondBuffer, joinable, dev, ctl, delivered, fatal,
                   crashed>>

\* m_effectChain.process(data, data, PERIOD_SIZE, CHANNELS)
processingEffects ==
    /\ ~crashed /\ stage.processing.pc = "effects"
    /\ block' = [block EXCEPT !.processing = EffectChainProcess(@)]
    /\ stage' = [stage EXCEPT !.processing = At("queueWrite")]
    /\ UNCHANGED <<running, firstBuffer, secondBuffer, joinable, dev, ctl,
                   delivered, fatal, crashed>>

\* secondBuffer->write(data, PERIOD_SIZE * FRAME_SIZE, false)
processingQueueWrite ==
    /\ ~crashed /\ stage.processing.pc = "queueWrite"
    /\ LET length == PERIOD_SIZE * FRAME_SIZE
       IN  IF WriteRejects(secondBuffer, length)
           THEN /\ stage' = [stage EXCEPT !.processing = At("loop")]
                /\ UNCHANGED secondBuffer
           ELSE /\ secondBuffer' =
                       WriteCopy(secondBuffer,
                                 CallerData(block.processing, length))
                /\ \E w \in NotifyOne(stage, "second.notEmpty") :
                       stage' = [w EXCEPT !.processing = At("loop")]
    /\ UNCHANGED <<running, firstBuffer, block, joinable, dev, ctl, delivered,
                   fatal, crashed>>

(***************************************************************************)
(* playbackLoop                                                            *)
(***************************************************************************)
\* playbackDevice.write(playbackBuffer.data(), PERIOD_SIZE) of the
\* zero-filled vector, twice; the result is not looked at
playbackPreroll ==
    /\ ~crashed /\ stage.playback.pc = "preroll"
    /\ LET n == stage.playback.i + 1
       IN  stage' = [stage EXCEPT
                       !.playback = IF n < PrerollWrites
                                    THEN [At("preroll") EXCEPT !.i = n]
                                    ELSE At("loop")]
    /\ UNCHANGED <<running, firstBuffer, secondBuffer, block, joinable, dev,
                   ctl, delivered, fatal, crashed>>

\* while (running.load())
playbackLoopTest ==
    /\ ~crashed /\ stage.playback.pc = "loop"
    /\ stage' = [stage EXCEPT !.playback = IF running THEN At("queueRead")
                                           ELSE Exited]
    /\ block' = [block EXCEPT !.playback = IF running THEN @ ELSE Silence]
    /\ UNCHANGED <<running, firstBuffer, secondBuffer, joinable, dev, ctl,
                   delivered, fatal, crashed>>

\* secondBuffer->read(playbackBuffer.data(), bufferSizeBytes, false), with
\* bufferSizeBytes = playbackBuffer.size() * sizeof(int32_t); on false the
\* vector is filled with zeros
playbackQueueRead ==
    /\ ~crashed /\ stage.playback.pc = "queueRead"
    /\ LET length == BlockSamples * SampleBytes
       IN  IF ReadRejects(secondBuffer, length)
           THEN /\ block' = [block EXCEPT !.playback = Silence]
                /\ stage' = [stage EXCEPT !.playback = At("deviceWrite")]
                /\ UNCHANGED secondBuffer
           ELSE LET r == ReadCopy(secondBuffer, length)
                IN  /\ secondBuffer' = r.q
                    /\ block' = [block EXCEPT
                                   !.playback = StoreInBlock(@, r.data)]
                    /\ \E w \in NotifyOne(stage, "second.notFull") :
                           stage' = [w EXCEPT !.playback = At("deviceWrite")]
    /\ UNCHANGED <<running, firstBuffer, joinable, dev, ctl, delivered, fatal,
                   crashed>>

\* playbackDevice.write(data, PERIOD_SIZE) and the handling of its result:
\* frames written, -EAGAIN, an error recover() repairs, or an error it
\* does not (running.store(false); break)
TransientErrors == {"again", "recovered"}
WriteOutcomes == {"written", "failed"} \cup TransientErrors
playbackWriteResult(outcome) ==
    /\ ~crashed /\ stage.playback.pc = "deviceWrite"
    /\ IF outcome = "failed"
       THEN /\ stage' = [stage EXCEPT !.playback = Exited]
            /\ block' = [block EXCEPT !.playback = Silence]
            /\ running' = FALSE
            /\ fatal' = "playback"
       ELSE /\ stage' = [stage EXCEPT !.playback = At("loop")]
            /\ UNCHANGED <<running, fatal, block>>
    /\ UNCHANGED <<firstBuffer, secondBuffer, joinable, dev, ctl, delivered,
                   crashed>>

playbackDeviceWrite == \E outcome \in WriteOutcomes : playbackWriteResult(outcome)

(***************************************************************************)
(* Steps of the environment.                                               *)
(***************************************************************************)
\* a thread suspended in a condition-variable wait may wake spuriously
stageSpuriousWake ==
    /\ ~crashed
    /\ \E s \in Stages :
         /\ stage[s].pc = "wait"
         /\ stage' = [stage EXCEPT ![s].pc = "woken"]
    /\ UNCHANGED <<running, firstBuffer, secondBuffer, block, joinable, dev,
                   ctl, delivered, fatal, crashed>>

\* the length of the queue call a stage is about to make, 0 if none
PendingLength(s) ==
    CASE s = "capture" /\ stage[s].pc \in {"prefill", "woken"} ->
             PERIOD_SIZE * FRAME_SIZE
      [] s = "capture" /\ stage[s].pc = "queueWrite" -> stage[s].len
      [] s = "processing" /\ stage[s].pc \in {"queueRead", "woken", "queueWrite"} ->
             PERIOD_SIZE * FRAME_SIZE
      [] s = "playback" /\ stage[s].pc = "queueRead" -> BlockSamples * SampleBytes
      [] OTHER -> 0

\* a queue call whose length exceeds the vector passed to it reads or
\* writes outside the vector: the access may fault
memoryFault ==
    /\ ~crashed
    /\ \E s \in Stages : PendingLength(s) > BlockSamples
    /\ Terminate

PipelineInit ==
    /\ QueueInit
    /\ scn = ScnOff
    /\ Constructed
    /\ NoUnits

PipelineNext ==
    \/ initialize /\ UNCHANGED <<queueVars, scn, unitVars>>
    \/ start /\ UNCHANGED <<queueVars, scn, unitVars>>
    \/ stopBegin /\ UNCHANGED <<queueVars, scn, unitVars>>
    \/ stopClearFirst /\ UNCHANGED <<queueVars, scn, unitVars>>
    \/ stopClearSecond /\ UNCHANGED <<queueVars, scn, unitVars>>
    \/ stopJoin /\ UNCHANGED <<queueVars, scn, unitVars>>
    \/ stopDrop /\ UNCHANGED <<queueVars, scn, unitVars>>
    \/ printStatus /\ UNCHANGED <<queueVars, scn, unitVars>>
    \/ captureDeviceStart /\ UNCHANGED <<queueVars, scn, unitVars>>
    \/ capturePrefill /\ UNCHANGED <<queueVars, scn, unitVars>>
    \/ captureLoopTest /\ UNCHANGED <<queueVars, scn, unitVars>>
    \/ captureDeviceRead /\ UNCHANGED <<queueVars, scn, unitVars>>
    \/ captureQueueWrite /\ UNCHANGED <<queueVars, scn, unitVars>>
    \/ processingLoopTest /\ UNCHANGED <<queueVars, scn, unitVars>>
    \/ processingQueueRead /\ UNCHANGED <<queueVars, scn, unitVars>>
    \/ processingEffects /\ UNCHANGED <<queueVars, scn, unitVars>>
    \/ processingQueueWrite /\ UNCHANGED <<queueVars, scn, unitVars>>
    \/ playbackPreroll /\ UNCHANGED <<queueVars, scn, unitVars>>
    \/ playbackLoopTest /\ UNCHANGED <<queueVars, scn, unitVars>>
    \/ playbackQueueRead /\ UNCHANGED <<queueVars, scn, unitVars>>
    \/ playbackDeviceWrite /\ UNCHANGED <<queueVars, scn, unitVars>>
    \/ stageSpuriousWake /\ UNCHANGED <<queueVars, scn, unitVars>>
    \/ memoryFault /\ UNCHANGED <<queueVars, scn, unitVars>>

PipelineSpec == PipelineInit /\ [][PipelineNext]_vars

(***************************************************************************)
(* The pipeline in mid-run with queue A full: both devices opened, the     *)
(* pipeline started, the pre-fill done, and the capture stage QueuePeriods *)
(* periods ahead of a processing stage that has not been scheduled yet.    *)
(* It is the state the steps above reach when the capture device keeps     *)
(* delivering; starting from it keeps the overflow of queue A within       *)
(* reach: the capture device has one more period to deliver.  The control  *)
(* thread makes no further call: the steps are those of the three stages.  *)
(***************************************************************************)
\* the block of the n-th period delivered before the run starts
EarlierBlock(n) == [k \in 1..BlockSamples |-> Indeterminate + n]

\* queue A after n non-blocking writes of one captured period each
RECURSIVE Backlog(_)
Backlog(n) ==
    IF n = 0
    THEN NewQueue(AUDIO_BUFFER_SIZE)
    ELSE WriteCopy(Backlog(n - 1),
                   CallerData(EarlierBlock(n), PERIOD_SIZE * FRAME_SIZE))

\* queue B after n pre-fill writes of the zero-filled vector
RECURSIVE Prefilled(_)
Prefilled(n) ==
    IF n = 0
    THEN NewQueue(AUDIO_BUFFER_SIZE)
    ELSE WriteCopy(Prefilled(n - 1),
                   CallerData(Silence, PERIOD_SIZE * FRAME_SIZE))

BacklogInit ==
    /\ QueueInit
    /\ scn = ScnOff
    /\ running = TRUE
    /\ firstBuffer = Backlog(QueuePeriods)
    /\ secondBuffer = Prefilled(PrefillBlocks)
    /\ stage = [capture |-> At("loop"), processing |-> At("loop"),
                playback |-> At("preroll")]
    /\ block = [capture |-> EarlierBlock(QueuePeriods),
                processing |-> Silence, playback |-> Silence]
    /\ joinable = [s \in Stages |-> TRUE]
    /\ dev = [capture |-> TRUE, playback |-> TRUE]
    /\ ctl = [pc |-> "idle", ret |-> "started", calls |-> MaxCalls]
    /\ delivered = MaxDelivered - 1
    /\ fatal = "none"
    /\ crashed = FALSE
    /\ NoUnits

BacklogNext ==
    \/ captureLoopTest /\ UNCHANGED <<queueVars, scn, unitVars>>
    \/ captureDeviceRead /\ UNCHANGED <<queueVars, scn, unitVars>>
    \/ captureQueueWrite /\ UNCHANGED <<queueVars, scn, unitVars>>
    \/ processingLoopTest /\ UNCHANGED <<queueVars, scn, unitVars>>
    \/ processingQueueRead /\ UNCHANGED <<queueVars, scn, unitVars>>
    \/ processingEffects /\ UNCHANGED <<queueVars, scn, unitVars>>
    \/ processingQueueWrite /\ UNCHANGED <<queueVars, scn, unitVars>>
    \/ playbackPreroll /\ UNCHANGED <<queueVars, scn, unitVars>>
    \/ playbackLoopTest /\ UNCHANGED <<queueVars, scn, unitVars>>
    \/ playbackQueueRead /\ UNCHANGED <<queueVars, scn, unitVars>>
    \/ playbackDeviceWrite /\ UNCHANGED <<queueVars, scn, unitVars>>
    \/ stageSpuriousWake /\ UNCHANGED <<queueVars, scn, unitVars>>
    \/ memoryFault /\ UNCHANGED <<queueVars, scn, unitVars>>

BacklogSpec == BacklogInit /\ [][BacklogNext]_vars

(***************************************************************************)
(* Claims about the pipeline, checked under PipelineSpec.                  *)
(***************************************************************************)
StopReturned == ctl.pc = "idle" /\ ctl.ret = "stopped"
AllJoined ==
    \A s \in Stages : ~joinable[s] /\ stage[s].pc \in {"none", "exited"}
\* a reader of firstBuffer suspended with too little to read and the only
\* writer, the capture thread, gone: no step of the pipeline releases it
ReaderStranded ==
    /\ stage.processing.pc \in {"wait", "woken"}
    /\ stage.processing.cv = "first.notEmpty"
    /\ ~NotEmptyPred(firstBuffer, stage.processing.len)
    /\ stage.capture.pc \in {"none", "exited"}

\* C8: a stop() called after a successful start() returns, and when it has
\* returned the capture, processing and playback threads have all left
\* their loops and been joined.  As a property of states: whenever stop()
\* has returned every stage thread is exited and joined, and stop() is
\* never inside processingThread.join() while the processing thread is
\* suspended in a read of firstBuffer that nothing can complete.
C8_StopJoinsAll ==
    /\ StopReturned => AllJoined
    /\ ~(ctl.pc = "joinProcessing" /\ joinable.processing /\ ReaderStranded)

\* C9: after the capture or the playback stage has cleared running on an
\* unrecoverable device error and exited, the other stages leave their
\* loops too: no stage is left suspended in a queue wait that nothing can
\* complete.
C9_FatalErrorStopsPipeline ==
    (fatal # "none" /\ ~running /\ stage[fatal].pc = "exited")
        => ~ReaderStranded

\* C10: the length argument of every queue write and read a stage makes
\* equals the number of samples of the stage's block vector,
\* PERIOD_SIZE * CHANNELS.
C10_BlockLengths ==
    \A s \in Stages :
        PendingLength(s) # 0 => PendingLength(s) = PERIOD_SIZE * CHANNELS

\* the step is the completion of the processing stage's read of queue A
ProcessingReadStep ==
    /\ ~crashed'
    /\ stage.processing.pc \in {"queueRead", "woken"}
    /\ stage'.processing.pc = "effects"
\* the cells of queue A the step takes out of it
TakenCells ==
    {(firstBuffer.tail + k) % firstBuffer.capacity :
         k \in 0..(firstBuffer.size - firstBuffer'.size - 1)}
\* v is a sample of a captured period (not silence, not a value from
\* beyond a vector, not a processed image)
IsCaptured(v) == v > 0 /\ v # Indeterminate

\* C12: the processing stage takes the blocks out of queue A as the capture
\* stage put them in and passes each one on: a captured period that is in
\* queue A (so was not dropped on overflow) is not lost on the way.  As a
\* property of the read: every captured period with samples among the
\* cells one read takes out of queue A has samples in the block the
\* processing stage holds after that read.
C12_NoBlockLost ==
    [][ ProcessingReadStep =>
          \A c \in TakenCells :
              IsCaptured(firstBuffer.buffer[c]) =>
                  \E k \in 1..BlockSamples :
                      block'.processing[k] = firstBuffer.buffer[c]
      ]_vars

(***************************************************************************)
(* Claims about the stages in mid-run, checked under BacklogSpec.          *)
(***************************************************************************)
CaptureLoopPcs == {"loop", "deviceRead", "queueWrite"}
\* the step is the capture stage's write of its captured block to queue A
CaptureWriteStep ==
    /\ ~crashed'
    /\ stage.capture.pc = "queueWrite"
    /\ stage'.capture.pc # "queueWrite"
\* the samples of vec are in the cells of queue qb that follow position at
HoldsBlockAt(qb, at, vec) ==
    \A k \in 1..Len(vec) : qb.buffer[(at + k - 1) % qb.capacity] = vec[k]

\* C11: inside its loop the capture stage never suspends on a queue: from
\* any position of the loop its next step leads to a position of the loop
\* or out of the function, never into a wait.  Its write of a captured
\* block to queue A returns at once: when queue A has less free space than
\* the write asks for, queue A is unchanged; otherwise the block is
\* appended at the head; either way the stage is back at its loop test.
C11_CaptureNeverWaits ==
    [][ /\ (~crashed' /\ stage.capture.pc \in CaptureLoopPcs)
            => stage'.capture.pc \in CaptureLoopPcs \cup {"exited"}
        /\ CaptureWriteStep =>
            /\ stage'.capture.pc = "loop"
            /\ IF firstBuffer.capacity - firstBuffer.size < stage.capture.len
               THEN firstBuffer' = firstBuffer
               ELSE /\ firstBuffer'.size = firstBuffer.size + stage.capture.len
                    /\ HoldsBlockAt(firstBuffer', firstBuffer.head, block.capture)
      ]_vars

\* a captured period was dropped: queue A is full, the capture stage is
\* back at its loop test, and the period it captured is in no cell of
\* queue A
C11_Witness ==
    /\ ~crashed
    /\ delivered = MaxDelivered
    /\ stage.capture.pc = "loop"
    /\ block.capture[1] = MaxDelivered
    /\ firstBuffer.size = firstBuffer.capacity
    /\ \A i \in DOMAIN firstBuffer.buffer : firstBuffer.buffer[i] # MaxDelivered

\* the step is the playback stage's read of queue B
PlaybackReadStep ==
    /\ ~crashed'
    /\ stage.playback.pc = "queueRead"
    /\ stage'.playback.pc # "queueRead"

StopCallStep ==
    /\ ctl.pc = "idle"
    /\ ctl'.pc = "clearFirst"

\* the step is the exit of the capture or the playback stage on a device
\* error it could not recover from
DeviceErrorStep ==
    \E s \in {"capture", "playback"} :
        /\ stage[s].pc \in {"deviceStart", "deviceRead", "deviceWrite"}
        /\ stage'[s].pc = "exited"
        /\ fatal' = s

\* the step is a queue call of stage s that the queue rejects: a write to
\* qb with less room than its length, a read with less data
RejectedWrite(s, qb) ==
    /\ ~crashed'
    /\ stage[s].pc = "queueWrite"
    /\ stage'[s].pc # "queueWrite"
    /\ qb.capacity - qb.size < PendingLength(s)

RejectedRead ==
    /\ PlaybackReadStep
    /\ secondBuffer.size < PendingLength("playback")

\* C14: the running flag goes from true to false only in a stop() call or
\* in the exit of the capture or playback stage on an unrecoverable device
\* error; a rejected queue write or read leaves the flag alone and leaves
\* the stage at the next position of its loop.
C14_OverflowNeverFatal ==
    [][ /\ (running /\ ~running' /\ ~crashed')
            => (StopCallStep \/ DeviceErrorStep)
        /\ RejectedWrite("capture", firstBuffer)
            => (running' = running /\ stage'.capture.pc = "loop")
        /\ RejectedWrite("processing", secondBuffer)
            => (running' = running /\ stage'.processing.pc = "loop")
        /\ RejectedRead
            => (running' = running /\ stage'.playback.pc = "deviceWrite")
      ]_vars

\* the capture stage has dropped a period on overflow and is in its next
\* iteration, the pipeline still running
C14_Witness ==
    /\ ~crashed /\ running
    /\ stage.capture.pc = "deviceRead"
    /\ delivered = MaxDelivered
    /\ block.capture[1] = MaxDelivered
    /\ firstBuffer.size = firstBuffer.capacity
    /\ \A i \in DOMAIN firstBuffer.buffer : firstBuffer.buffer[i] # MaxDelivered

\* a stage thread is alive while it is inside its loop function
Alive(s) == stage[s].pc \notin {"none", "exited"}

\* the step is a control-thread call that operates on both devices:
\* printStatus (getState), a start() that prepared them, the end of stop()
\* (drop)
ControlDeviceStep ==
    /\ ~crashed'
    /\ \/ ctl'.ret = "status" /\ ctl'.calls = ctl.calls + 1
       \/ ctl'.ret = "started" /\ ctl'.calls = ctl.calls + 1
       \/ ctl.pc = "drop" /\ ctl'.pc = "idle"

\* C15 (checked under PipelineSpec): while a stage thread is alive the
\* control thread performs no operation on the capture or the playback
\* device.
C15_DevicesSingleThread ==
    [][ ControlDeviceStep => \A s \in Stages : ~Alive(s) ]_vars

(***************************************************************************)
(* DelayLine (lines 14-58), exercised on its own: a ring of maxLen floats  *)
(* with a write position.  Index arithmetic is in size_t; the sum          *)
(* writeIndex - delayInSamples + maxLen is taken after the clamp, so its   *)
(* value lies in 1..2*maxLen-1 and the wrap-around of the subtraction      *)
(* cancels.                                                                *)
(***************************************************************************)
MaxCapacity == 3
LineSamples == 1..2
Delays == 0..(MaxCapacity + 1)

\* DelayLine(cap): maxLen zeros, writeIndex 0
NewDelayLine(cap) ==
    [buffer |-> [i \in 0..(cap - 1) |-> 0], maxLen |-> cap, writeIndex |-> 0]

\* write(sample)
DelayLineWrite(dl, sample) ==
    [dl EXCEPT !.buffer[dl.writeIndex] = sample,
               !.writeIndex = (dl.writeIndex + 1) % dl.maxLen]

\* a read that keeps the delay as given, without the clamp to maxLen - 1
ReadIndexUnclamped(dl, delayInSamples) ==
    (dl.writeIndex - delayInSamples + dl.maxLen) % dl.maxLen

\* the readIndex that read(delayInSamples) computes
ReadIndex(dl, delayInSamples) ==
    LET clamped == IF delayInSamples >= dl.maxLen THEN dl.maxLen - 1
                   ELSE delayInSamples
    IN  (dl.writeIndex - clamped + dl.maxLen) % dl.maxLen

\* read(delayInSamples)
DelayLineRead(dl, delayInSamples) == dl.buffer[ReadIndex(dl, delayInSamples)]

\* the history keeps the latest maxLen samples, oldest first
Remember(hist, sample, n) ==
    LET all == Append(hist, sample)
    IN  IF Len(all) > n THEN Tail(all) ELSE all

lineWrite ==
    /\ \E sample \in LineSamples :
         /\ delayLine' = DelayLineWrite(delayLine, sample)
         /\ written' = Remember(written, sample, delayLine.maxLen)
    /\ UNCHANGED <<lineRead, chain, fxVars, tuneVars>>

lineReadCall ==
    /\ \E d \in Delays :
         lineRead' = [d |-> d, index |-> ReadIndex(delayLine, d),
                      value |-> DelayLineRead(delayLine, d)]
    /\ UNCHANGED <<delayLine, written, chain, fxVars, tuneVars>>

\* clear(): zeros, writeIndex 0
lineClear ==
    /\ delayLine' = NewDelayLine(delayLine.maxLen)
    /\ written' = <<>>
    /\ UNCHANGED <<lineRead, chain, fxVars, tuneVars>>

DelayLineInit ==
    /\ QueueInit
    /\ scn = ScnOff
    /\ NoProcessor
    /\ \E cap \in 1..MaxCapacity : delayLine = NewDelayLine(cap)
    /\ written = <<>>
    /\ lineRead = [d |-> 0, index |-> 0, value |-> 0]
    /\ NoChain
    /\ NoDelayEffect
    /\ NoTuning
    /\ NoEcho

DelayLineNext ==
    \/ lineWrite /\ UNCHANGED <<queueVars, scn, pipeVars>>
    \/ lineReadCall /\ UNCHANGED <<queueVars, scn, pipeVars>>
    \/ lineClear /\ UNCHANGED <<queueVars, scn, pipeVars>>

DelayLineSpec == DelayLineInit /\ [][DelayLineNext]_vars

(***************************************************************************)
(* Claims about DelayLine, checked under DelayLineSpec                     *)
(***************************************************************************)
\* the sample written d writes before the latest one (d = 0: the latest)
WrittenAgo(d) == written[Len(written) - d]

\* C18: for every delay d with 0 <= d < maxLen for which enough samples have
\* been written, read(d) returns the sample written d writes ago, the
\* latest write being the one 0 writes ago.
C18_ReadReturnsDelayed ==
    \A d \in 0..(delayLine.maxLen - 1) :
        d < Len(written) => DelayLineRead(delayLine, d) = WrittenAgo(d)

\* the step leaves the line as it is: a read call
LineReadStep ==
    /\ delayLine' = delayLine
    /\ written' = written

\* C19: a read with a delay of maxLen or more returns what read(maxLen - 1)
\* returns, and the index a read computes lies in 0..maxLen-1.
C19_ReadClamped ==
    /\ [][ LineReadStep =>
             /\ lineRead'.index \in 0..(delayLine.maxLen - 1)
             /\ lineRead'.d >= delayLine.maxLen
                 => lineRead'.value
                        = DelayLineRead(delayLine, delayLine.maxLen - 1)
         ]_vars
    /\ [](\A d \in Delays :
            /\ ReadIndex(delayLine, d) \in 0..(delayLine.maxLen - 1)
            /\ d >= delayLine.maxLen
                => DelayLineRead(delayLine, d)
                       = DelayLineRead(delayLine, delayLine.maxLen - 1))

\* a read beyond the capacity of a full line of three or more samples has
\* returned the second oldest sample, which differs from the oldest and
\* from the latest
C19_Witness ==
    /\ delayLine.maxLen > 2
    /\ Len(written) = delayLine.maxLen
    /\ written[2] # written[1]
    /\ written[2] # written[Len(written)]
    /\ lineRead.d > delayLine.maxLen
    /\ lineRead.index = ReadIndex(delayLine, lineRead.d)
    /\ lineRead.value = DelayLineRead(delayLine, lineRead.d)
    /\ lineRead.value = written[2]

(***************************************************************************)
(* Further claims about the control calls, checked under PipelineSpec      *)
(***************************************************************************)
\* the step is a start() call that returns
StartCallStep ==
    /\ ~crashed'
    /\ ctl'.calls = ctl.calls + 1
    /\ ctl'.ret \in {"started", "startRefused"}

\* the latest control call was a stop() of a pipeline that had been started:
\* the three stage threads have run and ended
StoppedAfterRun ==
    /\ ctl.pc = "idle"
    /\ ctl.ret = "stopped"
    /\ \A s \in Stages : stage[s].pc = "exited"

\* C17: a start() call that comes next after the stop() of a started
\* pipeline, with no initialize() in between, is refused: it leaves the
\* running flag false and creates no stage thread.
C17_NoRestartWithoutInitialize ==
    [][ (StoppedAfterRun /\ StartCallStep) =>
            /\ running' = FALSE
            /\ stage' = stage
            /\ joinable' = joinable
      ]_vars

(***************************************************************************)
(* AudioEffectChain (lines 1140-1234), exercised on its own.  The buffers  *)
(* of a process call are named: "a" is the caller's input, "b" a second    *)
(* buffer of the caller, "temp" the chain's m_tempBuffer; two pointers are *)
(* equal when they name the same buffer.  The effects registered here are  *)
(* disabled DelayEffects, which pass their input through.                  *)
(***************************************************************************)
MaxFrames == 2
MaxEffects == 3
ChainSamples == 1..2

\* a memcpy that takes its length for a number of frames
MemcpyFrames(m, dst, src, bytes) ==
    [m EXCEPT ![dst] = [i \in 1..Len(m[dst]) |->
                          IF i <= bytes \div FRAME_SIZE THEN m[src][i]
                          ELSE m[dst][i]]]

\* std::memcpy(dst, src, bytes) on int32_t buffers
Memcpy(m, dst, src, bytes) ==
    [m EXCEPT ![dst] = [i \in 1..Len(m[dst]) |->
                          IF i <= bytes \div SampleBytes THEN m[src][i]
                          ELSE m[dst][i]]]

\* what an enabled effect makes of a sample: the effect's own arithmetic is
\* left out, the value records which effects acted on the sample, in order
Apply(e, v) == v * (MaxEffects + 1) + e.id

\* the first count samples of buffer dst become the effect's result on the
\* first count samples of buffer src
Transformed(m, e, dst, src, count) ==
    [m EXCEPT ![dst] = [i \in 1..Len(m[dst]) |->
                          IF i <= count THEN Apply(e, m[src][i])
                          ELSE m[dst][i]]]

\* DelayEffect::process with m_enabled false: pass through
DisabledProcess(m, src, dst, numSamples, channels) ==
    IF src # dst
    THEN Memcpy(m, dst, src, numSamples * channels * SampleBytes)
    ELSE m

\* DelayEffect::process(inputBuffer, outputBuffer, numSamples, channels)
DelayEffectProcess(m, e, src, dst, numSamples, channels) ==
    IF ~e.enabled \/ channels = 0
    THEN [mem |-> DisabledProcess(m, src, dst, numSamples, channels),
          effect |-> e]
    ELSE [mem |-> Transformed(m, e, dst, src, numSamples * channels),
          effect |-> [e EXCEPT !.processed = @ + numSamples * channels]]

\* ReverbEffect::process(samples, numFrames, channels): in place, and only
\* for the channel count the reverb was built for
ReverbEffectProcess(m, e, samples, numFrames, channels) ==
    IF ~e.enabled \/ channels # CHANNELS
    THEN [mem |-> m, effect |-> e]
    ELSE [mem |-> Transformed(m, e, samples, samples, numFrames * channels),
          effect |-> [e EXCEPT !.processed = @ + numFrames * channels]]

\* m_effects[i]->process(currentInput, currentOutput, numSamples, channels).
\* ReverbEffect has no method of this signature: its process takes one
\* buffer, which is the output buffer or the input buffer of the call
\* (target).
EffectProcess(m, e, src, dst, numSamples, channels, target) ==
    IF e.kind = "DelayEffect"
    THEN DelayEffectProcess(m, e, src, dst, numSamples, channels)
    ELSE ReverbEffectProcess(m, e, IF target = "output" THEN dst ELSE src,
                             numSamples, channels)

\* m_tempBuffer.resize(totalSamples) when it is smaller
TempResized(m, totalSamples) ==
    IF Len(m.temp) < totalSamples
    THEN [m EXCEPT !.temp = [i \in 1..totalSamples |->
                               IF i <= Len(m.temp) THEN m.temp[i] ELSE 0]]
    ELSE m

\* the loop over m_effects from effect i (counted from 0) on; c.mem and
\* c.m_effects carry the memory and the effects as they are so far
RECURSIVE ChainLoop(_, _, _, _, _)
ChainLoop(c, i, currentInput, currentOutput, target) ==
    LET count == Len(c.m_effects)
        output == IF i = count - 1 THEN c.outputBuffer ELSE currentOutput
        r == EffectProcess(c.mem, c.m_effects[i + 1], currentInput, output,
                           c.numSamples, c.channels, target)
        after == [c EXCEPT !.mem = r.mem, !.m_effects[i + 1] = r.effect]
    IN  IF i < count - 1
        THEN ChainLoop(after, i + 1, output,
                       IF output = "temp" THEN c.outputBuffer ELSE "temp",
                       target)
        ELSE after

\* AudioEffectChain::process(inputBuffer, outputBuffer, numSamples, channels)
AudioEffectChainProcess(c, target) ==
    IF c.m_effects = <<>>
    THEN IF c.inputBuffer # c.outputBuffer
         THEN [c EXCEPT !.mem = Memcpy(c.mem, c.outputBuffer, c.inputBuffer,
                                       c.numSamples * c.channels * SampleBytes)]
         ELSE c
    ELSE ChainLoop([c EXCEPT !.mem = TempResized(c.mem,
                                         c.numSamples * c.channels)],
                   0, c.inputBuffer,
                   IF Len(c.m_effects) = 1 THEN c.outputBuffer ELSE "temp",
                   target)

EffectKinds == {"DelayEffect", "ReverbEffect"}

\* addEffect(effect); setEnabled(false) may have been called on the effect
chainAddEffect ==
    /\ ~chain.done
    /\ Len(chain.m_effects) < MaxEffects
    /\ \E kind \in EffectKinds, enabled \in BOOLEAN :
         chain' = [chain EXCEPT
                     !.m_effects = Append(@, [kind |-> kind,
                                              enabled |-> enabled,
                                              id |-> Len(@) + 1,
                                              processed |-> 0])]
    /\ UNCHANGED <<delayLine, written, lineRead, fxVars, tuneVars>>

chainProcess ==
    /\ ~chain.done
    /\ \E target \in {"input", "output"} :
         chain' = [AudioEffectChainProcess(chain, target) EXCEPT
                     !.done = TRUE, !.registered = chain.m_effects]
    /\ UNCHANGED <<delayLine, written, lineRead, fxVars, tuneVars>>

ChainInit ==
    /\ QueueInit
    /\ scn = ScnOff
    /\ NoProcessor
    /\ NoDelayLine
    /\ NoDelayEffect
    /\ NoTuning
    /\ NoEcho
    /\ \E n \in 0..MaxFrames, ch \in 1..CHANNELS, same \in BOOLEAN :
         \E data \in [1..(n * ch) -> ChainSamples] :
            chain = [m_effects |-> <<>>,
                     mem |-> [a |-> data, b |-> [i \in 1..(n * ch) |-> 0],
                              temp |-> <<>>],
                     inputBuffer |-> "a",
                     outputBuffer |-> IF same THEN "a" ELSE "b",
                     numSamples |-> n, channels |-> ch,
                     before |-> data, registered |-> <<>>, done |-> FALSE]

ChainNext ==
    \/ chainAddEffect /\ UNCHANGED <<queueVars, scn, pipeVars>>
    \/ chainProcess /\ UNCHANGED <<queueVars, scn, pipeVars>>

ChainSpec == ChainInit /\ [][ChainNext]_vars

(***************************************************************************)
(* Claims about AudioEffectChain, checked under ChainSpec                  *)
(***************************************************************************)
\* C20: after process() on a chain with no effects the output buffer holds
\* the input, sample for sample, over numSamples * channels samples, whether
\* the two buffers are distinct or the same.
C20_EmptyChainCopies ==
    (chain.done /\ chain.m_effects = <<>>) =>
        \A i \in 1..(chain.numSamples * chain.channels) :
            chain.mem[chain.outputBuffer][i] = chain.before[i]

\* an empty chain has processed two or more stereo frames that differ, from
\* one buffer into another
C20_Witness ==
    /\ chain.done
    /\ chain.m_effects = <<>>
    /\ chain.inputBuffer # chain.outputBuffer
    /\ chain.numSamples >= 2
    /\ chain.channels = CHANNELS
    /\ chain.before[1] # chain.before[chain.numSamples * chain.channels]
    /\ chain.mem[chain.outputBuffer] = chain.before

\* process() has run on a chain of one or more effects
ChainProcessed == chain.done /\ Len(chain.registered) >= 1

\* the output buffer holds the input as it was before the call
OutputIsInput ==
    \A i \in 1..(chain.numSamples * chain.channels) :
        chain.mem[chain.outputBuffer][i] = chain.before[i]

\* C21: after process() on a chain of one or more effects, all of them
\* disabled (DelayEffect or ReverbEffect), the output buffer holds the input
\* sample for sample, whether the buffers are distinct or the same, and no
\* effect's internal state has changed.
C21_DisabledPassThrough ==
    (ChainProcessed /\ \A k \in DOMAIN chain.registered :
                           ~chain.registered[k].enabled)
        => (OutputIsInput /\ chain.m_effects = chain.registered)

\* the same for chains of DelayEffects only
DisabledDelaysPassThrough ==
    (ChainProcessed /\ \A k \in DOMAIN chain.registered :
                           /\ ~chain.registered[k].enabled
                           /\ chain.registered[k].kind = "DelayEffect")
        => (OutputIsInput /\ chain.m_effects = chain.registered)

\* what sample v becomes when the first k of the effects act on it in turn
RECURSIVE InOrder(_, _, _)
InOrder(effects, k, v) ==
    IF k = 0 THEN v
    ELSE IF effects[k].enabled
         THEN Apply(effects[k], InOrder(effects, k - 1, v))
         ELSE InOrder(effects, k - 1, v)

OutputInOrder ==
    \A i \in 1..(chain.numSamples * chain.channels) :
        chain.mem[chain.outputBuffer][i] =
            InOrder(chain.registered, Len(chain.registered), chain.before[i])

\* C28: process() on a chain of n >= 1 enabled effects applies them in
\* registration order, each effect receiving the block the one before it
\* produced and the first receiving the input; the output buffer ends with
\* the composition, sample for sample, for every n, with distinct and with
\* identical input and output buffers.
C28_OrderedChain ==
    (ChainProcessed /\ \A k \in DOMAIN chain.registered :
                           chain.registered[k].enabled)
        => OutputInOrder

\* the same for chains of DelayEffects only
DelaysInOrder ==
    (ChainProcessed /\ \A k \in DOMAIN chain.registered :
                           chain.registered[k].kind = "DelayEffect")
        => OutputInOrder

\* three enabled DelayEffects ran on one buffer used as input and output
DelaysInOrderReached ==
    /\ ChainProcessed /\ Len(chain.registered) = MaxEffects
    /\ \A k \in DOMAIN chain.registered :
           chain.registered[k].kind = "DelayEffect" /\ chain.registered[k].enabled
    /\ chain.inputBuffer = chain.outputBuffer
    /\ chain.numSamples >= 1

(***************************************************************************)
(* The DelayEffect under concurrent control calls (lines 989-1137 and      *)
(* 1411-1446).  The processing thread runs DelayEffect::process one memory *)
(* access at a time; the control thread runs the effect control methods of *)
(* AudioProcessor, none of which takes a lock.  Of each delay buffer the   *)
(* model keeps the length only.  An access outside a buffer is undefined:  *)
(* it either faults or goes on.                                            *)
(***************************************************************************)
DelaySamples == 1
ExtraSpace == 1
maxChannels == 8
m_bufferSize == DelaySamples + ExtraSpace

\* m_effectChain after initialize(): the reverb was added first
EffectChain == <<"ReverbEffect", "DelayEffect">>

\* m_effectChain.getEffect(index)
getEffect(index) ==
    IF index < Len(EffectChain) THEN EffectChain[index + 1] ELSE "nullptr"

\* dynamic_cast<DelayEffect *>(effect) != nullptr
IsDelayEffect(effect) == effect = "DelayEffect"

DelaySetters ==
    {"setDelayEnabled", "setDelayTime", "setDelayFeedback", "setDelayMix"}

\* the DelayEffect as initialize() leaves it: eight buffers of m_bufferSize
\* samples, write positions 0, enabled
DelayEffectInit ==
    /\ QueueInit
    /\ scn = ScnOff
    /\ NoProcessor
    /\ NoDelayLine
    /\ NoChain
    /\ NoTuning
    /\ NoEcho
    /\ delayEffect = [m_enabled |-> TRUE,
                      m_delayBuffers |-> [c \in 0..(maxChannels - 1) |->
                                            m_bufferSize],
                      m_writeIndices |-> [c \in 0..(maxChannels - 1) |-> 0]]
    /\ proc = [pc |-> "idle", sample |-> 0, ch |-> 0, readIndex |-> 0]
    /\ setter = [pc |-> "idle", i |-> 0, calls |-> 0]

Faulted == proc.pc = "faulted"

\* process(): the test of m_enabled and of the number of delay buffers
processEnter ==
    /\ proc.pc = "idle"
    /\ proc' = IF delayEffect.m_enabled
               THEN [pc |-> "calc", sample |-> 0, ch |-> 0, readIndex |-> 0]
               ELSE proc
    /\ UNCHANGED <<delayEffect, setter>>

\* readIndex = (m_writeIndices[ch] + m_bufferSize - m_delaySamples)
\*             % m_bufferSize
processCalc ==
    /\ proc.pc = "calc"
    /\ proc' = [proc EXCEPT
                  !.pc = "load",
                  !.readIndex = (delayEffect.m_writeIndices[proc.ch]
                                 + m_bufferSize - DelaySamples) % m_bufferSize]
    /\ UNCHANGED <<delayEffect, setter>>

\* an access to m_delayBuffers[ch][index], then on to position pc
DelayBufferAccess(index, pc) ==
    IF index < delayEffect.m_delayBuffers[proc.ch]
    THEN proc' = [proc EXCEPT !.pc = pc]
    ELSE \E faults \in BOOLEAN :
            proc' = [proc EXCEPT !.pc = IF faults THEN "faulted" ELSE pc]

\* delayedSample = m_delayBuffers[ch][readIndex]
processLoad ==
    /\ proc.pc = "load"
    /\ DelayBufferAccess(proc.readIndex, "store")
    /\ UNCHANGED <<delayEffect, setter>>

\* m_delayBuffers[ch][m_writeIndices[ch]] = ...
processStore ==
    /\ proc.pc = "store"
    /\ DelayBufferAccess(delayEffect.m_writeIndices[proc.ch], "advance")
    /\ UNCHANGED <<delayEffect, setter>>

\* m_writeIndices[ch] = (m_writeIndices[ch] + 1) % m_bufferSize, and the two
\* loop headers
processAdvance ==
    /\ proc.pc = "advance"
    /\ delayEffect' = [delayEffect EXCEPT
                         !.m_writeIndices[proc.ch] = (@ + 1) % m_bufferSize]
    /\ proc' = IF proc.ch + 1 < CHANNELS
               THEN [proc EXCEPT !.pc = "calc", !.ch = @ + 1]
               ELSE IF proc.sample + 1 < PERIOD_SIZE
               THEN [proc EXCEPT !.pc = "calc", !.ch = 0, !.sample = @ + 1]
               ELSE [pc |-> "idle", sample |-> 0, ch |-> 0, readIndex |-> 0]
    /\ UNCHANGED setter

\* setDelayEnabled, setDelayTime, setDelayFeedback, setDelayMix: each acts
\* on getEffect(0) if that is a DelayEffect
setDelayCall ==
    /\ ~Faulted /\ setter.pc = "idle" /\ setter.calls < MaxCalls
    /\ \E name \in DelaySetters, enabled \in BOOLEAN :
         IF IsDelayEffect(getEffect(0))
         THEN /\ delayEffect' =
                    IF name = "setDelayEnabled"
                    THEN [delayEffect EXCEPT !.m_enabled = enabled]
                    ELSE delayEffect
              /\ setter' = [setter EXCEPT
                              !.pc = IF name = "setDelayTime" THEN "clear"
                                     ELSE "idle",
                              !.calls = @ + 1]
         ELSE /\ setter' = [setter EXCEPT !.calls = @ + 1]
              /\ UNCHANGED delayEffect
    /\ UNCHANGED proc

\* resetEffects(): m_effectChain.reset() is entered
resetEffects ==
    /\ ~Faulted /\ setter.pc = "idle" /\ setter.calls < MaxCalls
    /\ setter' = [setter EXCEPT !.pc = "reverb", !.calls = @ + 1]
    /\ UNCHANGED <<delayEffect, proc>>

\* ReverbEffect::reset(), then DelayEffect::reset() up to its loop: the two
\* outer vectors already have maxChannels elements
resetReverb ==
    /\ ~Faulted /\ setter.pc = "reverb"
    /\ setter' = [setter EXCEPT !.pc = "clear", !.i = 0]
    /\ UNCHANGED <<delayEffect, proc>>

\* buffer.clear()
resetClear ==
    /\ ~Faulted /\ setter.pc = "clear"
    /\ delayEffect' = [delayEffect EXCEPT !.m_delayBuffers[setter.i] = 0]
    /\ setter' = [setter EXCEPT !.pc = "resize"]
    /\ UNCHANGED proc

\* buffer.resize(m_bufferSize, 0), and the loop header
resetResize ==
    /\ ~Faulted /\ setter.pc = "resize"
    /\ delayEffect' = [delayEffect EXCEPT
                         !.m_delayBuffers[setter.i] = m_bufferSize]
    /\ setter' = IF setter.i + 1 < maxChannels
                 THEN [setter EXCEPT !.pc = "clear", !.i = @ + 1]
                 ELSE [setter EXCEPT !.pc = "fill", !.i = 0]
    /\ UNCHANGED proc

\* std::fill(m_writeIndices.begin(), m_writeIndices.end(), 0)
resetFill ==
    /\ ~Faulted /\ setter.pc = "fill"
    /\ delayEffect' = [delayEffect EXCEPT
                         !.m_writeIndices = [c \in 0..(maxChannels - 1) |-> 0]]
    /\ setter' = [setter EXCEPT !.pc = "idle"]
    /\ UNCHANGED proc

\* everything but the DelayEffect and its two threads
otherVars == <<queueVars, scn, pipeVars, delayLine, written, lineRead, chain,
               tuneVars>>

DelayEffectNext ==
    \/ processEnter /\ UNCHANGED otherVars
    \/ processCalc /\ UNCHANGED otherVars
    \/ processLoad /\ UNCHANGED otherVars
    \/ processStore /\ UNCHANGED otherVars
    \/ processAdvance /\ UNCHANGED otherVars
    \/ setDelayCall /\ UNCHANGED otherVars
    \/ resetEffects /\ UNCHANGED otherVars
    \/ resetReverb /\ UNCHANGED otherVars
    \/ resetClear /\ UNCHANGED otherVars
    \/ resetResize /\ UNCHANGED otherVars
    \/ resetFill /\ UNCHANGED otherVars

DelayEffectSpec == DelayEffectInit /\ [][DelayEffectNext]_vars

(***************************************************************************)
(* Claims about the effect control calls, checked under DelayEffectSpec    *)
(***************************************************************************)
\* the step is the processing thread's read of a delay buffer
EffectLoadStep == proc.pc = "load" /\ proc'.pc # "load"

\* the step is the processing thread's write to a delay buffer
EffectStoreStep == proc.pc = "store" /\ proc'.pc # "store"

\* C16: whatever control call runs beside it, DelayEffect::process indexes
\* a delay buffer only below the buffer's current length, with its read
\* index and with its write index.
C16_NoPartialEffect ==
    [][ /\ EffectLoadStep =>
               proc.readIndex < delayEffect.m_delayBuffers[proc.ch]
        /\ EffectStoreStep =>
               delayEffect.m_writeIndices[proc.ch]
                   < delayEffect.m_delayBuffers[proc.ch]
      ]_vars


\* ---------------------------------------------------------------------
\* Effect parameters: the setters of DelayEffect, ReverbEffect, CombFilter
\* and AllPassFilter, the constructors that run before them, and the
\* AudioProcessor's delay controls.
\*
\* A float level is held in hundredths (0.95 is 95); a delay time in
\* milliseconds; a sample rate in units of 100 Hz (48000 Hz is 480), so
\* that (ms / 1000) * rate is ms * rate / 10 samples.
\* ---------------------------------------------------------------------

\* calls made on the effects of one trace
MaxTuningCalls == 2

\* the float that compares false with everything, itself included
NaN == 999999999
\* a size_t near 2^64: what a negative float converts to when the
\* conversion wraps
SizeWrapped == 888888888
\* "m_delaySamples + 1024"
ExtraBufferSpace == 1024

\* operator< on float
Less(a, b) == a # NaN /\ b # NaN /\ a < b
\* std::min(a, b): (b < a) ? b : a
StdMin(a, b) == IF Less(b, a) THEN b ELSE a
\* std::max(a, b): (a < b) ? b : a
StdMax(a, b) == IF Less(a, b) THEN b ELSE a
\* std::clamp(v, lo, hi): (v < lo) ? lo : (hi < v) ? hi : v
StdClamp(v, lo, hi) == IF Less(v, lo) THEN lo ELSE IF Less(hi, v) THEN hi ELSE v
\* integer division that truncates toward zero
Quot(a, b) == IF a >= 0 THEN a \div b ELSE -((-a) \div b)
\* the float product x * num / den; a value near 2^64 stays there
FloatScale(x, num, den) ==
    IF x = NaN \/ x = SizeWrapped THEN x ELSE Quot(x * num, den)
\* static_cast<size_t>(x) of a float: truncation when the value fits, and
\* undefined when it is NaN or negative (builds give 0 or a wrapped size)
ToSize(x) == IF x = NaN \/ x < 0 THEN {0, SizeWrapped} ELSE {x}
\* size_t addition on the sizes above
SizeAdd(n, k) == IF n = SizeWrapped THEN SizeWrapped ELSE n + k

\* the arguments the calls are tried with
LevelArgs == {NaN, -100, 30, 1000}
TimeArgs == {NaN, -250, 250, 100000}
Rates == {441, 960}

\* DelayEffect::setDelayTime, [samples] being the converted product
DelaySamplesOf(e, delayTimeMs) == ToSize(FloatScale(delayTimeMs, e.m_sampleRate, 10))
DelayEffect_setDelayTime(e, samples) ==
    [e EXCEPT !.m_delaySamples = samples,
              !.m_bufferSize = SizeAdd(samples, ExtraBufferSpace)]
DelayEffect_setFeedback(e, feedback) ==
    [e EXCEPT !.m_feedback = StdMax(0, StdMin(95, feedback))]
DelayEffect_setWetLevel(e, wetLevel) ==
    [e EXCEPT !.m_wetLevel = StdMax(0, StdMin(100, wetLevel))]
DelayEffect_setDryLevel(e, dryLevel) ==
    [e EXCEPT !.m_dryLevel = StdMax(0, StdMin(100, dryLevel))]
DelayEffect_setMix(e, wetLevel, dryLevel) ==
    DelayEffect_setDryLevel(DelayEffect_setWetLevel(e, wetLevel), dryLevel)
\* getDelayTimeMs(), in milliseconds
getDelayTimeMs(e) ==
    IF e.m_delaySamples = SizeWrapped THEN SizeWrapped
    ELSE IF e.m_sampleRate = 0 THEN NaN
    ELSE Quot(e.m_delaySamples * 10, e.m_sampleRate)
\* DelayEffect::setSampleRate: the delay time is kept, the samples recomputed
DelayEffect_setSampleRate(e, sampleRate, samples) ==
    DelayEffect_setDelayTime([e EXCEPT !.m_sampleRate = sampleRate], samples)
\* DelayEffect::DelayEffect(delayTimeMs, feedback, wetLevel, dryLevel); the
\* base class starts enabled at 48000 Hz
DelayEffectCtor(feedback, wetLevel, dryLevel, samples) ==
    DelayEffect_setDelayTime(
        [m_enabled |-> TRUE, m_sampleRate |-> 480, m_delaySamples |-> 0,
         m_bufferSize |-> 0, m_feedback |-> feedback, m_wetLevel |-> wetLevel,
         m_dryLevel |-> dryLevel], samples)
\* the constructor arguments: the defaults, and those of initialize()
CtorArgs == {<<250, 30>>, <<48000, 200>>}

RoomTypes == {"SMALL_ROOM", "MEDIUM_ROOM", "LARGE_HALL", "CATHEDRAL", "PLATE",
              "SPRING", "CUSTOM"}

\* same as Preset, with the decay and damping of LARGE_HALL exchanged
PresetSwapped(roomType) ==
    CASE roomType = "SMALL_ROOM" -> <<30, 50, 30, 60, 40>>
      [] roomType = "MEDIUM_ROOM" -> <<70, 70, 20, 70, 30>>
      [] roomType = "LARGE_HALL" -> <<150, 15, 85, 80, 20>>
      [] roomType = "CATHEDRAL" -> <<250, 92, 10, 90, 15>>
      [] roomType = "PLATE" -> <<80, 80, 5, 95, 10>>
      [] roomType = "SPRING" -> <<40, 60, 40, 50, 50>>
\* the switch of initializeParameters(): m_roomSize, m_decay, m_damping,
\* m_diffusion, m_earlyReflectionLevel of each room type but CUSTOM
Preset(roomType) ==
    CASE roomType = "SMALL_ROOM" -> <<30, 50, 30, 60, 40>>
      [] roomType = "MEDIUM_ROOM" -> <<70, 70, 20, 70, 30>>
      [] roomType = "LARGE_HALL" -> <<150, 85, 15, 80, 20>>
      [] roomType = "CATHEDRAL" -> <<250, 92, 10, 90, 15>>
      [] roomType = "PLATE" -> <<80, 80, 5, 95, 10>>
      [] roomType = "SPRING" -> <<40, 60, 40, 50, 50>>

\* ReverbEffect::initializeParameters()
initializeParameters(r) ==
    IF r.m_roomType = "CUSTOM" THEN r
    ELSE LET v == Preset(r.m_roomType)
         IN  [r EXCEPT !.m_roomSize = v[1], !.m_decay = v[2],
                       !.m_damping = v[3], !.m_diffusion = v[4],
                       !.m_earlyReflectionLevel = v[5]]

\* the lengths createFilters() gives the first comb filter and the first
\* all-pass filter: m_roomSize * m_sampleRate * 0.03 and * 0.005, with the
\* ReverbEffect's own m_sampleRate
CombDelay(roomSize, sampleRate) == FloatScale(roomSize, sampleRate * 3, 100)
AllPassDelay(roomSize, sampleRate) == FloatScale(roomSize, sampleRate * 5, 1000)
FilterSizes(r) ==
    {[comb |-> c, allpass |-> a] :
        c \in ToSize(CombDelay(r.m_roomSize, r.m_sampleRate)),
        a \in ToSize(AllPassDelay(r.m_roomSize, r.m_sampleRate))}

\* ReverbEffect::createFilters(): new filters, built by the constructors
\* CombFilter(size, m_decay, m_damping), AllPassFilter(size, m_diffusion * 0.7)
createFilters(r, sizes) ==
    [r EXCEPT !.comb = [m_bufferSize |-> sizes.comb, m_feedback |-> r.m_decay,
                        m_damping |-> r.m_damping],
              !.allpass = [m_bufferSize |-> sizes.allpass,
                           m_gain |-> FloatScale(r.m_diffusion, 70, 100)]]

\* CombFilter::setFeedback, CombFilter::setDamping, AllPassFilter::setGain
CombFilter_setFeedback(f, feedback) ==
    [f EXCEPT !.m_feedback = StdClamp(feedback, 0, 99)]
CombFilter_setDamping(f, damping) ==
    [f EXCEPT !.m_damping = StdClamp(damping, 0, 100)]
AllPassFilter_setGain(f, gain) == [f EXCEPT !.m_gain = StdClamp(gain, -99, 99)]

\* the setters of ReverbEffect
ReverbEffect_setRoomType(r, roomType, sizes) ==
    createFilters(initializeParameters([r EXCEPT !.m_roomType = roomType]),
                  sizes)
ReverbEffect_setRoomSize(r, size, sizes) ==
    LET set == [r EXCEPT !.m_roomSize = StdClamp(size, 10, 300)]
    IN  IF r.m_roomType = "CUSTOM" THEN createFilters(set, sizes) ELSE set
ReverbEffect_setDecay(r, decay) ==
    LET set == [r EXCEPT !.m_decay = StdClamp(decay, 10, 99)]
    IN  [set EXCEPT !.comb = CombFilter_setFeedback(@, set.m_decay)]
ReverbEffect_setDamping(r, damping) ==
    LET set == [r EXCEPT !.m_damping = StdClamp(damping, 0, 100)]
    IN  [set EXCEPT !.comb = CombFilter_setDamping(@, set.m_damping)]
ReverbEffect_setDiffusion(r, diffusion) ==
    LET set == [r EXCEPT !.m_diffusion = StdClamp(diffusion, 0, 100)]
    IN  [set EXCEPT !.allpass =
            AllPassFilter_setGain(@, FloatScale(set.m_diffusion, 70, 100))]
ReverbEffect_setEarlyReflectionLevel(r, level) ==
    [r EXCEPT !.m_earlyReflectionLevel = StdClamp(level, 0, 100)]
\* AudioEffect::setSampleRate, which ReverbEffect does not override: it
\* assigns the base class's m_sampleRate, not the member of the same name
\* that ReverbEffect declares and createFilters() reads
ReverbEffect_setSampleRate(r, sampleRate) ==
    [r EXCEPT !.base_sampleRate = sampleRate]

\* ReverbEffect(sampleRate, channels, roomType) with a room type other than
\* CUSTOM
ReverbEffectCtor(sampleRate, roomType) ==
    LET r == initializeParameters(
                 [m_enabled |-> TRUE, base_sampleRate |-> 480,
                  m_sampleRate |-> sampleRate, m_roomType |-> roomType,
                  m_roomSize |-> 0, m_decay |-> 0, m_damping |-> 0,
                  m_diffusion |-> 0, m_earlyReflectionLevel |-> 0,
                  comb |-> [m_bufferSize |-> 0, m_feedback |-> 0,
                            m_damping |-> 0],
                  allpass |-> [m_bufferSize |-> 0, m_gain |-> 0]])
    IN  createFilters(r, CHOOSE sizes \in FilterSizes(r) : TRUE)

\* one more call on the effects: op tells a call on the AudioProcessor from
\* a call on an effect object
Called(op) == call' = [call EXCEPT !.calls = @ + 1, !.op = op]
MayCall == call.calls < MaxTuningCalls
\* reset() resizes the delay buffers to m_bufferSize: a wrapped size is
\* beyond what a vector can hold, and resize throws
ResizeThrows(e) == e.m_bufferSize = SizeWrapped
CalledDelay(op, e) ==
    call' = [call EXCEPT !.calls = @ + 1, !.op = op,
                         !.threw = @ \/ ResizeThrows(e)]

\* the DelayEffect and the ReverbEffect right after their constructors
TuningInit ==
    /\ QueueInit
    /\ scn = ScnOff
    /\ NoProcessor
    /\ NoDelayLine
    /\ NoChain
    /\ NoDelayEffect
    /\ NoEcho
    /\ \E a \in CtorArgs :
         \E samples \in DelaySamplesOf([m_sampleRate |-> 480], a[1]) :
            delayFx = DelayEffectCtor(a[2], 30, 70, samples)
    /\ reverbFx = ReverbEffectCtor(480, "MEDIUM_ROOM")
    /\ call = [op |-> "construct", calls |-> 0, initialized |-> FALSE,
               threw |-> FALSE]

\* initialize(), after the DelayEffect is built: setDelayTime(250.0f),
\* setFeedback(0.3f), setMix(0.4f, 0.6f), addEffect
initializeDelay ==
    /\ ~call.initialized
    /\ \E samples \in DelaySamplesOf(delayFx, 250) :
         delayFx' = DelayEffect_setMix(
                        DelayEffect_setFeedback(
                            DelayEffect_setDelayTime(delayFx, samples), 30),
                        40, 60)
    /\ call' = [call EXCEPT !.initialized = TRUE, !.op = "initialize"]
    /\ UNCHANGED reverbFx

\* the setters of the DelayEffect, called on the object
delaySetDelayTime ==
    /\ MayCall
    /\ \E delayTimeMs \in TimeArgs :
         \E samples \in DelaySamplesOf(delayFx, delayTimeMs) :
            /\ delayFx' = DelayEffect_setDelayTime(delayFx, samples)
            /\ CalledDelay("DelayEffect", delayFx')
    /\ UNCHANGED reverbFx

delaySetFeedback ==
    /\ MayCall
    /\ \E feedback \in LevelArgs :
         delayFx' = DelayEffect_setFeedback(delayFx, feedback)
    /\ Called("DelayEffect")
    /\ UNCHANGED reverbFx

delaySetWetLevel ==
    /\ MayCall
    /\ \E wetLevel \in LevelArgs :
         delayFx' = DelayEffect_setWetLevel(delayFx, wetLevel)
    /\ Called("DelayEffect")
    /\ UNCHANGED reverbFx

delaySetDryLevel ==
    /\ MayCall
    /\ \E dryLevel \in LevelArgs :
         delayFx' = DelayEffect_setDryLevel(delayFx, dryLevel)
    /\ Called("DelayEffect")
    /\ UNCHANGED reverbFx

delaySetMix ==
    /\ MayCall
    /\ \E wetLevel \in LevelArgs, dryLevel \in LevelArgs :
         delayFx' = DelayEffect_setMix(delayFx, wetLevel, dryLevel)
    /\ Called("DelayEffect")
    /\ UNCHANGED reverbFx

\* AudioProcessor::setDelayEnabled, setDelayTime, setDelayFeedback,
\* setDelayMix: each acts on getEffect(0) if that is a DelayEffect
setDelayEnabled(enabled) ==
    /\ MayCall /\ call.initialized
    /\ delayFx' = IF IsDelayEffect(getEffect(0))
                  THEN [delayFx EXCEPT !.m_enabled = enabled]
                  ELSE delayFx
    /\ Called("AudioProcessor")
    /\ UNCHANGED reverbFx

setDelayTime(delayMs) ==
    /\ MayCall /\ call.initialized
    /\ IF IsDelayEffect(getEffect(0))
       THEN \E samples \in DelaySamplesOf(delayFx, delayMs) :
               /\ delayFx' = DelayEffect_setDelayTime(delayFx, samples)
               /\ CalledDelay("AudioProcessor", delayFx')
       ELSE UNCHANGED delayFx /\ Called("AudioProcessor")
    /\ UNCHANGED reverbFx

setDelayFeedback(feedback) ==
    /\ MayCall /\ call.initialized
    /\ delayFx' = IF IsDelayEffect(getEffect(0))
                  THEN DelayEffect_setFeedback(delayFx, feedback)
                  ELSE delayFx
    /\ Called("AudioProcessor")
    /\ UNCHANGED reverbFx

setDelayMix(wetLevel, dryLevel) ==
    /\ MayCall /\ call.initialized
    /\ delayFx' = IF IsDelayEffect(getEffect(0))
                  THEN DelayEffect_setMix(delayFx, wetLevel, dryLevel)
                  ELSE delayFx
    /\ Called("AudioProcessor")
    /\ UNCHANGED reverbFx

\* the setters of the ReverbEffect
setRoomType(roomType) ==
    /\ MayCall
    /\ \E sizes \in FilterSizes(initializeParameters(
                        [reverbFx EXCEPT !.m_roomType = roomType])) :
         reverbFx' = ReverbEffect_setRoomType(reverbFx, roomType, sizes)
    /\ Called("ReverbEffect")
    /\ UNCHANGED delayFx

setRoomSize ==
    /\ MayCall
    /\ \E size \in LevelArgs :
         \E sizes \in FilterSizes(
                        [reverbFx EXCEPT !.m_roomSize = StdClamp(size, 10, 300)]) :
            reverbFx' = ReverbEffect_setRoomSize(reverbFx, size, sizes)
    /\ Called("ReverbEffect")
    /\ UNCHANGED delayFx

setDecay ==
    /\ MayCall
    /\ \E decay \in LevelArgs : reverbFx' = ReverbEffect_setDecay(reverbFx, decay)
    /\ Called("ReverbEffect")
    /\ UNCHANGED delayFx

setDamping ==
    /\ MayCall
    /\ \E damping \in LevelArgs :
         reverbFx' = ReverbEffect_setDamping(reverbFx, damping)
    /\ Called("ReverbEffect")
    /\ UNCHANGED delayFx

setDiffusion ==
    /\ MayCall
    /\ \E diffusion \in LevelArgs :
         reverbFx' = ReverbEffect_setDiffusion(reverbFx, diffusion)
    /\ Called("ReverbEffect")
    /\ UNCHANGED delayFx

setEarlyReflectionLevel ==
    /\ MayCall
    /\ \E level \in LevelArgs :
         reverbFx' = ReverbEffect_setEarlyReflectionLevel(reverbFx, level)
    /\ Called("ReverbEffect")
    /\ UNCHANGED delayFx

\* AudioEffectChain::setSampleRate(sampleRate): every effect's setSampleRate
chainSetSampleRate(sampleRate) ==
    /\ MayCall
    /\ \E samples \in DelaySamplesOf([m_sampleRate |-> sampleRate],
                                     getDelayTimeMs(delayFx)) :
         /\ delayFx' = DelayEffect_setSampleRate(delayFx, sampleRate, samples)
         /\ CalledDelay("AudioEffectChain", delayFx')
    /\ reverbFx' = ReverbEffect_setSampleRate(reverbFx, sampleRate)

tuningOthers == <<queueVars, scn, pipeVars, delayLine, written, lineRead,
                  chain, fxVars, echo>>

TuningNext ==
    \/ initializeDelay /\ UNCHANGED tuningOthers
    \/ delaySetDelayTime /\ UNCHANGED tuningOthers
    \/ delaySetFeedback /\ UNCHANGED tuningOthers
    \/ delaySetWetLevel /\ UNCHANGED tuningOthers
    \/ delaySetDryLevel /\ UNCHANGED tuningOthers
    \/ delaySetMix /\ UNCHANGED tuningOthers
    \/ (\E enabled \in BOOLEAN : setDelayEnabled(enabled))
          /\ UNCHANGED tuningOthers
    \/ (\E delayMs \in TimeArgs : setDelayTime(delayMs))
          /\ UNCHANGED tuningOthers
    \/ (\E feedback \in LevelArgs : setDelayFeedback(feedback))
          /\ UNCHANGED tuningOthers
    \/ (\E wetLevel \in LevelArgs, dryLevel \in LevelArgs :
          setDelayMix(wetLevel, dryLevel)) /\ UNCHANGED tuningOthers
    \/ (\E roomType \in RoomTypes : setRoomType(roomType))
          /\ UNCHANGED tuningOthers
    \/ setRoomSize /\ UNCHANGED tuningOthers
    \/ setDecay /\ UNCHANGED tuningOthers
    \/ setDamping /\ UNCHANGED tuningOthers
    \/ setDiffusion /\ UNCHANGED tuningOthers
    \/ setEarlyReflectionLevel /\ UNCHANGED tuningOthers
    \/ (\E sampleRate \in Rates : chainSetSampleRate(sampleRate))
          /\ UNCHANGED tuningOthers

TuningSpec == TuningInit /\ [][TuningNext]_vars

\* a float inside [lo, hi]
InRange(v, lo, hi) == v # NaN /\ lo <= v /\ v <= hi

DelayParamsLegal ==
    /\ InRange(delayFx.m_feedback, 0, 95)
    /\ InRange(delayFx.m_wetLevel, 0, 100)
    /\ InRange(delayFx.m_dryLevel, 0, 100)

ReverbParamsLegal ==
    /\ InRange(reverbFx.m_roomSize, 10, 300)
    /\ InRange(reverbFx.m_decay, 10, 99)
    /\ InRange(reverbFx.m_damping, 0, 100)
    /\ InRange(reverbFx.m_diffusion, 0, 100)
    /\ InRange(reverbFx.m_earlyReflectionLevel, 0, 100)
    /\ InRange(reverbFx.comb.m_feedback, 0, 99)
    /\ InRange(reverbFx.comb.m_damping, 0, 100)
    /\ InRange(reverbFx.allpass.m_gain, -99, 99)

\* C22: once initialize() has set the effects up, after any sequence of
\* setter calls with any float arguments every parameter lies in its legal
\* range: DelayEffect feedback in [0, 0.95], wet and dry in [0, 1];
\* ReverbEffect room size in [0.1, 3.0], decay in [0.1, 0.99], damping,
\* diffusion and early-reflection level in [0, 1]; CombFilter feedback in
\* [0, 0.99] and damping in [0, 1]; AllPassFilter gain in [-0.99, 0.99].
C22_SettersClamp == call.initialized => (DelayParamsLegal /\ ReverbParamsLegal)

\* the DelayEffect's part of C22: std::max(lo, std::min(hi, x)) sends a NaN
\* to hi
DelaySettersClamp == call.initialized => DelayParamsLegal

\* the longest delay time the command interface asks for, "1-1000ms"
MaxDelayTimeMs == 1000

\* C23: DelayEffect::setDelayTime never fails and keeps the delay bounded:
\* once initialize() has run, whatever delay times are passed (negative or
\* arbitrarily large included), no call throws, m_delaySamples is at most
\* the samples of the longest legal delay time and each channel's buffer is
\* m_delaySamples + 1024 long.
C23_DelayTimeBounded ==
    call.initialized =>
        /\ ~call.threw
        /\ delayFx.m_delaySamples <= (MaxDelayTimeMs * delayFx.m_sampleRate) \div 10
        /\ delayFx.m_bufferSize = delayFx.m_delaySamples + ExtraBufferSpace

\* C24: the DelayEffect's feedback coefficient is in [0, 0.95] in every
\* state from construction onward, whatever feedback the constructor was
\* given (the arguments of initialize() included) and whatever setters ran.
C24_FeedbackCapped == InRange(delayFx.m_feedback, 0, 95)

\* m_roomSize, m_decay, m_damping, m_diffusion, m_earlyReflectionLevel
FiveOf(r) == <<r.m_roomSize, r.m_decay, r.m_damping, r.m_diffusion,
               r.m_earlyReflectionLevel>>

\* the preset table, in hundredths
PresetTable ==
    [SMALL_ROOM |-> <<30, 50, 30, 60, 40>>,
     MEDIUM_ROOM |-> <<70, 70, 20, 70, 30>>,
     LARGE_HALL |-> <<150, 85, 15, 80, 20>>,
     CATHEDRAL |-> <<250, 92, 10, 90, 15>>,
     PLATE |-> <<80, 80, 5, 95, 10>>,
     SPRING |-> <<40, 60, 40, 50, 50>>]

SetRoomTypeStep(roomType) == setRoomType(roomType) /\ UNCHANGED tuningOthers

\* C26: a setRoomType(t) call, from any prior parameter state, leaves the
\* five parameters at the table values of t when t is not CUSTOM (decay 0.85
\* and damping 0.15 for LARGE_HALL), and leaves them as they were when t is
\* CUSTOM.
C26_RoomPreset ==
    [][\A roomType \in RoomTypes :
          SetRoomTypeStep(roomType) =>
             /\ reverbFx'.m_roomType = roomType
             /\ roomType = "LARGE_HALL" =>
                   reverbFx'.m_decay = 85 /\ reverbFx'.m_damping = 15
             /\ IF roomType = "CUSTOM"
                THEN FiveOf(reverbFx') = FiveOf(reverbFx)
                ELSE FiveOf(reverbFx') = PresetTable[roomType]]_vars

\* LARGE_HALL was selected after another decay had been set
C26_Witness ==
    /\ call.calls = 2
    /\ reverbFx.m_roomType = "LARGE_HALL"
    /\ reverbFx.m_decay = 85 /\ reverbFx.m_damping = 15
    /\ reverbFx.m_roomSize = 150

\* what a level set to x reads back as: x itself inside [lo, hi], else in
\* the range
Reflects(v, x, lo, hi) == InRange(v, lo, hi) /\ (InRange(x, lo, hi) => v = x)

\* C27: the AudioProcessor's delay controls act on the chain's DelayEffect:
\* after setDelayEnabled(b) it has isEnabled() = b; after
\* setDelayFeedback(f), setDelayMix(w, d) and setDelayTime(ms) its feedback,
\* wet and dry levels and delay time are the (clamped) arguments.
C27_DelayControlsAct ==
    [][/\ \A enabled \in BOOLEAN :
             (setDelayEnabled(enabled) /\ UNCHANGED tuningOthers)
                => delayFx'.m_enabled = enabled
       /\ \A feedback \in LevelArgs :
             (setDelayFeedback(feedback) /\ UNCHANGED tuningOthers)
                => Reflects(delayFx'.m_feedback, feedback, 0, 95)
       /\ \A wetLevel \in LevelArgs, dryLevel \in LevelArgs :
             (setDelayMix(wetLevel, dryLevel) /\ UNCHANGED tuningOthers)
                => /\ Reflects(delayFx'.m_wetLevel, wetLevel, 0, 100)
                   /\ Reflects(delayFx'.m_dryLevel, dryLevel, 0, 100)
       /\ \A delayMs \in TimeArgs :
             (setDelayTime(delayMs) /\ UNCHANGED tuningOthers)
                => (InRange(delayMs, 1, MaxDelayTimeMs) =>
                       getDelayTimeMs(delayFx') = delayMs)]_vars

\* C29: AudioEffectChain::setSampleRate(r) reaches every member: after the
\* call the DelayEffect and the ReverbEffect alike derive their delay
\* lengths from r (the DelayEffect keeps its delay time, the reverb's comb
\* and all-pass filters have the lengths createFilters() gives at rate r).
C29_SampleRateBroadcast ==
    [][\A sampleRate \in Rates :
          (chainSetSampleRate(sampleRate) /\ UNCHANGED tuningOthers) =>
             /\ delayFx'.m_sampleRate = sampleRate
             /\ delayFx'.m_delaySamples \in
                    DelaySamplesOf([m_sampleRate |-> sampleRate],
                                   getDelayTimeMs(delayFx))
             /\ reverbFx'.comb.m_bufferSize \in
                    ToSize(CombDelay(reverbFx'.m_roomSize, sampleRate))
             /\ reverbFx'.allpass.m_bufferSize \in
                    ToSize(AllPassDelay(reverbFx'.m_roomSize, sampleRate))]_vars

\* the DelayEffect's part of C29
DelayFollowsSampleRate ==
    [][\A sampleRate \in Rates :
          (chainSetSampleRate(sampleRate) /\ UNCHANGED tuningOthers) =>
             /\ delayFx'.m_sampleRate = sampleRate
             /\ delayFx'.m_delaySamples \in
                    DelaySamplesOf([m_sampleRate |-> sampleRate],
                                   getDelayTimeMs(delayFx))]_vars

\* ---------------------------------------------------------------------
\* DelayEffect::process on its own (lines 1071-1136): one call per frame
\* of CHANNELS samples, on a DelayEffect whose parameters are fixed.
\*
\* Samples are 8 bits wide in place of 32 and a float holds 6 significant
\* bits in place of 24, so that a sample of large magnitude is rounded when
\* it is converted to float, as an int32_t above 2^24 is.  Levels are in
\* hundredths.
\* ---------------------------------------------------------------------

\* the longest delay, in samples, and the process calls of one trace
MaxEchoDelay == 2
MaxEchoCalls == 3

INT32_MAX == 127
INT32_MIN == -128
\* integers of smaller magnitude are exact as floats (2^24 in the source)
FloatExact == 64

Abs(x) == IF x < 0 THEN -x ELSE x
\* x rounded to the nearest multiple of step, a tie going to the even one
RoundHalfEven(x, step) ==
    LET quo == x \div step
        rem == x - quo * step
    IN  IF 2 * rem < step THEN quo * step
        ELSE IF 2 * rem > step THEN (quo + 1) * step
        ELSE IF quo % 2 = 0 THEN quo * step ELSE (quo + 1) * step
\* static_cast<float>(sample), the usual conversion before a float product
ToFloat(sample) ==
    IF Abs(sample) < FloatExact THEN sample ELSE RoundHalfEven(sample, 2)
\* static_cast<int64_t>(sample * level): the float product, rounded to a
\* float, then truncated toward zero
FloatTimes(sample, level) ==
    LET x == ToFloat(sample) * level
    IN  IF Abs(x) < FloatExact * 100 THEN Quot(x, 100)
        ELSE RoundHalfEven(x, 200) \div 100

\* same as ClampInt32, but the conversion to int32_t wraps
WrapInt32(x) == ((x - INT32_MIN) % (INT32_MAX - INT32_MIN + 1)) + INT32_MIN
\* static_cast<int32_t>(std::max(INT32_MIN, std::min(INT32_MAX, x)))
ClampInt32(x) == StdMax(INT32_MIN, StdMin(INT32_MAX, x))

\* the body of the two loops of process() for one sample of channel ch
EchoSample(e, ch, inputSample) ==
    LET w == e.m_writeIndices[ch]
        readIndex == (w + e.m_bufferSize - e.m_delaySamples) % e.m_bufferSize
        delayedSample == e.m_delayBuffers[ch][readIndex]
        feedbackSample == FloatTimes(delayedSample, e.m_feedback)
        bufferInput == inputSample + feedbackSample
        storedSample == ClampInt32(bufferInput)
        drySignal == FloatTimes(inputSample, e.m_dryLevel)
        wetSignal == FloatTimes(delayedSample, e.m_wetLevel)
        mixedSignal == drySignal + wetSignal
    IN  [e EXCEPT !.m_delayBuffers[ch][w] = storedSample,
                  !.m_writeIndices[ch] = (w + 1) % e.m_bufferSize,
                  !.stored[ch] = <<storedSample>> \o @,
                  !.last[ch] = [input |-> inputSample, readIndex |-> readIndex,
                                delayed |-> delayedSample,
                                stored |-> storedSample,
                                output |-> ClampInt32(mixedSignal)]]

\* process() on one frame: channel 0, then channel 1, ...
RECURSIVE EchoFrame(_, _, _)
EchoFrame(e, frame, ch) ==
    IF ch = CHANNELS THEN e
    ELSE EchoFrame(EchoSample(e, ch, frame[ch]), frame, ch + 1)

\* DelayEffect::reset(): every buffer m_bufferSize zeros, write indices 0
EchoReset(e) ==
    [e EXCEPT !.m_delayBuffers = [c \in 0..(CHANNELS - 1) |->
                                    [i \in 0..(e.m_bufferSize - 1) |-> 0]],
              !.m_writeIndices = [c \in 0..(CHANNELS - 1) |-> 0],
              !.stored = [c \in 0..(CHANNELS - 1) |-> <<>>],
              !.last = [c \in 0..(CHANNELS - 1) |->
                          [input |-> 0, readIndex |-> 0, delayed |-> 0,
                           stored |-> 0, output |-> 0]]]

EchoInputs == {INT32_MIN, -1, 77, INT32_MAX}
\* m_feedback, m_wetLevel, m_dryLevel
EchoLevels == {<<95, 100, 100>>, <<30, 40, 60>>, <<0, 0, 100>>}

\* a DelayEffect after setDelayTime, setFeedback and setMix
EchoInit ==
    /\ QueueInit
    /\ scn = ScnOff
    /\ NoProcessor
    /\ NoDelayLine
    /\ NoChain
    /\ NoDelayEffect
    /\ NoTuning
    /\ \E d \in 0..MaxEchoDelay, levels \in EchoLevels :
         echo = EchoReset([m_delaySamples |-> d, m_bufferSize |-> d + ExtraSpace,
                           m_feedback |-> levels[1], m_wetLevel |-> levels[2],
                           m_dryLevel |-> levels[3], m_delayBuffers |-> <<>>,
                           m_writeIndices |-> <<>>, stored |-> <<>>,
                           last |-> <<>>, calls |-> 0])

echoProcess ==
    /\ echo.calls < MaxEchoCalls
    /\ \E frame \in [0..(CHANNELS - 1) -> EchoInputs] :
         echo' = [EchoFrame(echo, frame, 0) EXCEPT !.calls = @ + 1]

echoReset ==
    /\ echo.calls < MaxEchoCalls
    /\ echo.calls > 0
    /\ echo' = [EchoReset(echo) EXCEPT !.calls = @ + 1]

echoOthers == <<queueVars, scn, pipeVars, delayLine, written, lineRead, chain,
                fxVars, delayFx, reverbFx, call>>

EchoNext ==
    \/ echoProcess /\ UNCHANGED echoOthers
    \/ echoReset /\ UNCHANGED echoOthers

EchoSpec == EchoInit /\ [][EchoNext]_vars

\* x, in hundredths of a sample, clamped to the 32-bit range
Clamp100(x) ==
    IF x > 100 * INT32_MAX THEN 100 * INT32_MAX
    ELSE IF x < 100 * INT32_MIN THEN 100 * INT32_MIN
    ELSE x
\* what one float product may be off by, in samples: half a unit in the
\* last place of the largest float for the conversion of the sample, as
\* much for the rounding of the product, under one for the truncation
ProductSlack == 3
\* sample v is the clamped exact value, up to slack
Near(v, exact100, slack) == Abs(100 * v - Clamp100(exact100)) <= 100 * slack
\* a value beyond the 32-bit range keeps its sign
KeepsSign(v, exact100) ==
    /\ exact100 > 100 * INT32_MAX => v > 0
    /\ exact100 < 100 * INT32_MIN => v < 0

StoredAgo(h, d) == IF d + 1 <= Len(h) THEN h[d + 1] ELSE 0

DelayedIsStoredAgo(ch) ==
    /\ echo.last[ch].delayed = StoredAgo(echo.stored[ch], echo.m_delaySamples)
    /\ echo.last[ch].readIndex \in 0..(echo.m_delaySamples + ExtraSpace - 1)

\* C30: for every channel and every delaySamples >= 0, 0 included, the
\* delayed sample process() uses at a step is the value stored in that
\* channel's own buffer exactly delaySamples steps earlier (0 if fewer steps
\* were processed since reset), and the read index lies inside the buffer of
\* delaySamples + guard margin samples.
C30_DelayedSample == \A ch \in 0..(CHANNELS - 1) : DelayedIsStoredAgo(ch)

\* the same for delaySamples >= 1
PositiveDelayedSample ==
    echo.m_delaySamples >= 1 => \A ch \in 0..(CHANNELS - 1) : DelayedIsStoredAgo(ch)

\* with a delay of 1 or more, a channel read back a value it had stored,
\* while the other channel had stored something else
PositiveDelayReached ==
    /\ echo.m_delaySamples >= 1
    /\ echo.last[0].delayed = INT32_MAX
    /\ echo.last[1].delayed = INT32_MIN

\* the reverb's filters have the lengths createFilters() derives from the
\* current m_roomSize
FiltersFollowRoomSize ==
    /\ reverbFx.comb.m_bufferSize \in
           ToSize(CombDelay(reverbFx.m_roomSize, reverbFx.m_sampleRate))
    /\ reverbFx.allpass.m_bufferSize \in
           ToSize(AllPassDelay(reverbFx.m_roomSize, reverbFx.m_sampleRate))

\* C31: setting the room size rebuilds the delay lines: for every room
\* type, after any setRoomSize call the comb and all-pass delay lengths are
\* those derived from the new, clamped room size, so getRoomSize() and the
\* lengths of the filters process() uses always agree.
C31_RoomSizeRebuilds == FiltersFollowRoomSize

\* the same while the room type is CUSTOM
CustomRoomSizeRebuilds ==
    reverbFx.m_roomType = "CUSTOM" => FiltersFollowRoomSize

\* a room size was set under CUSTOM and the filters were rebuilt
CustomRoomSizeReached ==
    /\ reverbFx.m_roomType = "CUSTOM"
    /\ reverbFx.m_roomSize = 30
    /\ reverbFx.comb.m_bufferSize = 432

\* C32: ring consistency of BatchCircularBuffer: in every state between
\* operations (no thread inside a locked section), after any interleaving of
\* write, read and clear, head = (tail + size) mod capacity and
\* availableForRead() + availableForWrite() = capacity.
C32_RingConsistent ==
    /\ q.head = (q.tail + q.size) % q.capacity
    /\ availableForRead(q) + availableForWrite(q) = q.capacity

\* unread samples wrap around the end of the storage: the write index is
\* at or before the read index
C32_Witness ==
    /\ q.size > 0 /\ q.tail # 0 /\ q.head <= q.tail
    /\ last.op = "read" /\ last.ret = "true"

(***************************************************************************)
(* BatchCircularBuffer with several threads suspended at once: the queue   *)
(* of Spec, called by MaxWaiters tracked threads.                          *)
(***************************************************************************)
\* threads that can be suspended in a blocking call at the same time
MaxWaiters == 2

WaitersInit ==
    /\ q = NewQueue(Cap)
    /\ th = [t \in 1..MaxWaiters |-> IdleThread]
    /\ last = NoCall
    /\ fifo = <<>>
    /\ scn = ScnOff
    /\ NoProcessor
    /\ NoUnits

WaitersSpec == WaitersInit /\ [][Next]_vars

\* the predicate thread t waits for holds
WaitOver(t) ==
    IF th[t].cv = "notFull"
    THEN NotFullPred(q, th[t].len)
    ELSE NotEmptyPred(q, th[t].len)

\* thread t is blocked inside wait: no notification has reached it since it
\* last evaluated its predicate
Parked(t) == th[t].pc = "wait"

\* every thread is idle or blocked inside wait: unless some thread makes a
\* new call the queue stays as it is
Quiet == \A t \in DOMAIN th : th[t].pc \in {"idle", "wait"}

\* C33: no lost wakeup in BatchCircularBuffer: a thread suspended in a
\* blocking write (read) whose condition size + length <= capacity
\* (size >= length) holds and keeps holding eventually returns, for any number
\* of blocked writers and readers of different lengths.  As a statement about
\* finite runs: when no thread has a wakeup to act on, so that the queue stays
\* as it is, no thread is blocked in wait while its condition holds.
C33_NoLostWakeup ==
    Quiet => \A t \in DOMAIN th : Parked(t) => ~WaitOver(t)

(***************************************************************************)
(* AudioProcessor: what stop() and start() leave behind (PipelineSpec).    *)
(***************************************************************************)
\* stop() returns after it cleared the flag and both queues, joined the
\* three threads and dropped the devices
StopReturnStep == ctl.pc = "drop" /\ ctl'.pc = "idle"

QueuesEmpty(a, b) == availableForRead(a) = 0 /\ availableForRead(b) = 0

\* C34: no queue contents survive a stop: at the moment stop() returns, queue
\* A and queue B are both empty (availableForRead() = 0), however stop's
\* flag-clear and queue-clears interleave with the last iterations of the
\* capture and processing stages.
C34_StopLeavesQueuesEmpty ==
    [][StopReturnStep => QueuesEmpty(firstBuffer', secondBuffer')]_vars

(***************************************************************************)
(* The pipeline right after start() and the capture stage's pre-fill, with *)
(* a record of what the playback stage handed to the device: last holds    *)
(* the latest playbackDevice.write of the loop, its block and its result.  *)
(* The control thread makes no further call.                               *)
(***************************************************************************)
PlaybackInit ==
    /\ QueueInit
    /\ scn = ScnOff
    /\ running = TRUE
    /\ firstBuffer = NewQueue(AUDIO_BUFFER_SIZE)
    /\ secondBuffer = Prefilled(PrefillBlocks)
    /\ stage = [capture |-> At("loop"), processing |-> At("loop"),
                playback |-> At("preroll")]
    /\ block = [s \in Stages |-> Silence]
    /\ joinable = [s \in Stages |-> TRUE]
    /\ dev = [capture |-> TRUE, playback |-> TRUE]
    /\ ctl = [pc |-> "idle", ret |-> "started", calls |-> MaxCalls]
    /\ delivered = 0
    /\ fatal = "none"
    /\ crashed = FALSE
    /\ NoUnits

\* playbackDevice.write(data, PERIOD_SIZE) in the loop, recorded
playbackDeviceWriteLogged ==
    \E outcome \in WriteOutcomes :
        /\ playbackWriteResult(outcome)
        /\ last' = Call("deviceWrite", FALSE, PERIOD_SIZE, outcome,
                        block.playback, FALSE)

PlaybackNext ==
    \/ captureLoopTest /\ UNCHANGED <<queueVars, scn, unitVars>>
    \/ captureDeviceRead /\ UNCHANGED <<queueVars, scn, unitVars>>
    \/ captureQueueWrite /\ UNCHANGED <<queueVars, scn, unitVars>>
    \/ processingLoopTest /\ UNCHANGED <<queueVars, scn, unitVars>>
    \/ processingQueueRead /\ UNCHANGED <<queueVars, scn, unitVars>>
    \/ processingEffects /\ UNCHANGED <<queueVars, scn, unitVars>>
    \/ processingQueueWrite /\ UNCHANGED <<queueVars, scn, unitVars>>
    \/ playbackPreroll /\ UNCHANGED <<queueVars, scn, unitVars>>
    \/ playbackLoopTest /\ UNCHANGED <<queueVars, scn, unitVars>>
    \/ playbackQueueRead /\ UNCHANGED <<queueVars, scn, unitVars>>
    \/ playbackDeviceWriteLogged /\ UNCHANGED <<q, th, fifo, scn, unitVars>>
    \/ stageSpuriousWake /\ UNCHANGED <<queueVars, scn, unitVars>>
    \/ memoryFault /\ UNCHANGED <<queueVars, scn, unitVars>>

PlaybackSpec == PlaybackInit /\ [][PlaybackNext]_vars

\* the latest device write of the playback loop met a transient error:
\* -EAGAIN, or an error that recover() repaired
RetryPending == last.op = "deviceWrite" /\ last.ret \in TransientErrors

\* the playback stage hands its block to the device
PlaybackSubmitStep ==
    /\ stage.playback.pc = "deviceWrite"
    /\ stage'.playback.pc # "deviceWrite"

\* C35: on a transient playback device error (EAGAIN, or an error recover()
\* repairs) the playback stage tries again with the same block: the block
\* dequeued from queue B is not discarded, and the next device write submits
\* that block, not a newly dequeued one.
C35_RetrySameBlock ==
    [][(RetryPending /\ PlaybackSubmitStep) => block.playback = last.data]_vars

\* a stage thread of an earlier start() is still alive or not yet joined
ThreadsLeft == \E s \in Stages : Alive(s) \/ joinable[s]

\* the start() call creates no thread and the process goes on
NoThreadCreated == stage' = stage /\ joinable' = joinable /\ ~crashed'

\* C36: at most one set of stage threads exists at any time.  A start()
\* creates the three stage threads only when no stage thread of an earlier
\* start is alive or unjoined, also after a stage has cleared the running
\* flag on a fatal error while the other stages are alive; a start() while
\* running returns false and changes nothing; a start() that fails in
\* prepare leaves the running flag false and creates no thread.
C36_OneSetOfThreads ==
    [][start =>
          /\ ThreadsLeft => NoThreadCreated
          /\ running => /\ ctl'.ret = "startRefused"
                        /\ UNCHANGED <<running, firstBuffer, secondBuffer,
                                       stage, block, joinable, dev, delivered,
                                       fatal, crashed>>
          /\ (~running /\ ctl'.ret = "startRefused")
                 => running' = FALSE /\ NoThreadCreated
      ]_vars
====
